---- MODULE Spec2Model ----
(***************************************************************************)
(* Client transfer engine (Pull / Push with a sliding window of layer      *)
(* workers) and the in-memory object store of docker/distribution.         *)
(***************************************************************************)
EXTENDS Integers, Sequences, FiniteSets, TLC

(* ------------------------------ bounds --------------------------------- *)
\* longest manifest (number of FSLayers) of a Pull or Push
MaxLayers == 5
\* number of bytes of every remote blob
BlobSize == 2
\* number of client calls and streams that fail in one invocation
MaxFaults == 2
\* number of LayerWriters handed out for the one layer of SpecLayer
MaxWriters == 3
\* largest size given to SetSize, and largest number of bytes in a writer's buffer
MaxSize == 2
\* number of goroutines that call Wait on the layer of SpecLayer
MaxWaiters == 2
\* number of characters of the longest path given to a Base method
MaxPathLen == 4
\* largest offset given to ReadStream and WriteStream
MaxOffset == 1
\* number of different parameters given to Create
MaxParameters == 2
\* number of times the f given to Walk returns ErrSkipDir
MaxSkips == 1
\* number of times the f given to Walk returns another error
MaxFnErrors == 1
\* age in hours of the oldest upload
MaxAge == 2
\* length of the longer blob a descriptor is about
MaxLength == 12
\* number of characters of the longest name and of the longest tag of a manifest
MaxNameLen == 1
\* number of calls of WriteManifest
MaxWrites == 3
\* number of different manifests written
MaxManifests == 2

(* ------------------------- program constants --------------------------- *)
simultaneousLayerPullWindow == 4
simultaneousLayerPushWindow == 4

Digests == 0 .. MaxLayers - 1
Layers == 0 .. MaxLayers - 1

VARIABLES
    op,             \* "pull" | "push": the workflow this invocation runs
    remoteBlobs,    \* the digests whose blob the remote registry holds before a Push
    manifest,       \* [found, FSLayers, History]: the manifest the scheduler gets
    preset,         \* the layer of digest 0 as it was when the invocation began
    i,              \* loop counter of the scheduler's for loop
    spc,            \* position of the scheduler
    ret,            \* the error Pull/Push returned (NoError is nil)
    cancelCh,       \* "open" | "closed"
    received,       \* sequence of [layer, err]: what the scheduler took from errChans
    wpc,            \* wpc[k]: position of the goroutine spawned for layer k
    werr,           \* werr[k]: the value pullLayer/pushLayer returned in goroutine k
    wbuf,           \* wbuf[k]: bytes.Buffer of the LayerWriter goroutine k holds
    wlen,           \* wlen[k]: length GetBlob announced to goroutine k
    layerStorage,   \* objStore.layerStorage: digest -> memoryLayer
    calls,          \* number of calls made of each client / store operation:
                    \* per layer index for the layer operations
    getBlobOffset,  \* getBlobOffset[k]: offset of the GetBlob call made for layer k
    firstFail,      \* index of the first goroutine (in time) that came back with an error
    faults,         \* number of client calls and streams that failed so far
    layer,          \* SpecLayer: the memoryLayer its callers share
    writers,        \* SpecLayer: the memoryLayerWriters handed out, each with its
                    \* buffer and whether Close was called on it
    waiters,        \* SpecLayer: position of each goroutine that calls layer.Wait()
    last,           \* SpecLayer: the last call that returned, its error, and the
                    \* layer as it was before the call
    baseCall,       \* SpecBase: the Base method called and its arguments
    baseRet,        \* SpecBase: what the call returned
    driverCalls,    \* SpecBase: the calls the wrapped StorageDriver received
    driverFactories,\* SpecFactory: the table of the registered factories, by name
    factoryLast,    \* SpecFactory: the last call of Register or Create, the table
                    \* before it, and how it ended
    namespace,      \* SpecWalk, SpecPurge: the paths the driver holds; the files
                    \* among them with their contents
    faulty,         \* the paths on which List, Stat, GetContent, Delete fail
    walkFn,         \* the WalkFn given to Walk: "any" or the one of the purger
    walkStack,      \* the calls of Walk that have not returned, outermost first:
                    \* [from, pc, children], children being those not yet ranged over
    walkRet,        \* what the outermost Walk returned (WalkRunning before that)
    visited,        \* the paths f was invoked on, in the order of the calls
    fnResult,       \* what f returned for each of the paths it was invoked on
    purgePc,        \* SpecPurge: where PurgeUploads is: "walk", "range", "done"
    olderThan,      \* the cutoff given to PurgeUploads, in hours from now
    actuallyDelete, \* the flag given to PurgeUploads
    uploads,        \* getOutstandingUploads: the uploadData found, by UUID
    inUploadDir,    \* getOutstandingUploads: inUploadDir
    errors,         \* the errors collected, each with the path pushError gave it
    deleted,        \* PurgeUploads: deleted
    ranged,         \* the UUIDs the loop of PurgeUploads has ranged over
    deleteCalls,    \* the paths driver.Delete was called on, in the order of the calls
    blobServer,     \* SpecBlob: what the statter, the path function and the driver
                    \* of the blobServer answer
    blobDgst,       \* the digest ServeBlob is called with
    responseWriter, \* the http.ResponseWriter: its Header and what was written
    serveRet,       \* what ServeBlob returned ("none" before that)
    serveCalls,     \* the calls ServeBlob made, in their order
    manifestStorage,\* SpecManifest: objStore.manifestStorage, key -> manifest
    manifestWrites, \* the calls of WriteManifest made, in their order
    manifestLast    \* the last call of Manifest or WriteManifest and its result

\* the variables of SpecLayer
lvars == <<layer, writers, waiters, last>>

\* the variables of SpecManifest
mfvars == <<manifestStorage, manifestWrites, manifestLast>>

\* the variables of ServeBlob
blvars == <<blobServer, blobDgst, responseWriter, serveRet, serveCalls>>

\* the variables of PurgeUploads
pgvars == <<purgePc, olderThan, actuallyDelete, uploads, inUploadDir, errors,
            deleted, ranged, deleteCalls>>

\* the variables of Walk
wkvars == <<namespace, faulty, walkFn, walkStack, walkRet, visited, fnResult>>

\* the variables of SpecFactory
fvars == <<driverFactories, factoryLast>>

\* the variables of SpecBase
bvars == <<baseCall, baseRet, driverCalls>>

\* the variables of the storage side, which the transfer engine never touches
svars == <<bvars, fvars, wkvars, pgvars, blvars, mfvars>>

\* what an invocation of Pull or Push never changes
evars == <<op, remoteBlobs, manifest, preset, svars>>
cvars == <<evars, lvars>>

pvars == <<evars, i, spc, ret, cancelCh, received, wpc, werr, wbuf, wlen,
           layerStorage, calls, getBlobOffset, firstFail, faults>>

\* the variables of the transfer engine and of the layer
tvars == <<op, remoteBlobs, manifest, preset, i, spc, ret, cancelCh, received, wpc,
           werr, wbuf, wlen, layerStorage, calls, getBlobOffset, firstFail, faults,
           lvars>>

\* all the variables but those of SpecBase
exceptBase == <<tvars, fvars, wkvars, pgvars, blvars, mfvars>>

\* all the variables but those of SpecFactory
exceptFactory == <<tvars, bvars, wkvars, pgvars, blvars, mfvars>>

\* all the variables but those of Walk
exceptWalk == <<tvars, bvars, fvars, pgvars, blvars, mfvars>>

\* all the variables but those of Walk and of PurgeUploads
exceptPurge == <<tvars, bvars, fvars, blvars, mfvars>>

\* all the variables but those of ServeBlob
exceptBlob == <<tvars, bvars, fvars, wkvars, pgvars, mfvars>>

\* all the variables but those of SpecManifest
exceptManifest == <<tvars, bvars, fvars, wkvars, pgvars, blvars>>

(* ------------------------------ errors --------------------------------- *)
\* error values: nil, or an error of a kind, tagged with the layer index it is about
NoError == [kind |-> "nil", layer |-> -1]
LayerError(kind, k) == [kind |-> kind, layer |-> k]

ErrLayerAlreadyExists == "Layer already exists"
ErrLayerLocked == "Layer locked"
ErrNotWritten == "Layer has not been written to yet"
ErrNoWriter == "No writer to wait on"

(* ---------------------------- memoryLayer ------------------------------ *)
\* a nil byte slice; every other slice is a sequence of bytes >= 0
NilBytes == <<-1>>

len(b) == IF b = NilBytes THEN 0 ELSE Len(b)

\* &memoryLayer{cond: sync.NewCond(new(sync.Mutex))}; cond is the set of
\* goroutines blocked in cond.Wait()
newMemoryLayer ==
    [contents |-> NilBytes, expectedSize |-> 0, writing |-> FALSE, cond |-> {}]

\* a Reader that does not look at the writing flag
ReaderErrUnlocked(ml) ==
    IF ml.contents = NilBytes THEN ErrNotWritten ELSE "nil"

\* the error memoryLayer.Reader returns ("nil": a reader is returned)
ReaderErr(ml) ==
    IF ml.contents = NilBytes THEN ErrNotWritten
    ELSE IF ml.writing THEN ErrLayerLocked
    ELSE "nil"

\* a Writer that hands out a writer for a layer that is complete
WriterErrNeverExists(ml) ==
    IF ml.contents # NilBytes /\ ml.writing THEN ErrLayerLocked ELSE "nil"

\* the error memoryLayer.Writer returns ("nil": a writer is returned)
WriterErr(ml) ==
    IF ml.contents # NilBytes /\ ml.writing THEN ErrLayerLocked
    ELSE IF ml.contents # NilBytes /\ ml.expectedSize = len(ml.contents)
         THEN ErrLayerAlreadyExists
    ELSE "nil"

\* a Writer that starts the layer afresh
WriterAcquireTruncate(ml) == [ml EXCEPT !.contents = <<>>, !.writing = TRUE]

\* the layer after memoryLayer.Writer returned a writer
WriterAcquire(ml) ==
    [ml EXCEPT !.contents = IF @ = NilBytes THEN <<>> ELSE @, !.writing = TRUE]

\* memoryLayerWriter.SetSize
SetSizeErr(ml) == IF ~ml.writing THEN "Layer is closed for writing" ELSE "nil"

SetSize(ml, size) ==
    IF SetSizeErr(ml) # "nil" THEN ml ELSE [ml EXCEPT !.expectedSize = size]

\* memoryLayerWriter.Write
WriteErr(ml) ==
    IF ml.expectedSize = 0 THEN "Must set size before writing to layer" ELSE "nil"

\* the writer's buffer after Write(p)
WriteBuffer(ml, buffer, p) == IF WriteErr(ml) # "nil" THEN buffer ELSE buffer \o p

\* the layer after Write(p) through a writer holding buffer
Write(ml, buffer, p) ==
    IF WriteErr(ml) # "nil" THEN ml ELSE [ml EXCEPT !.contents = buffer \o p]

\* a Close that does not broadcast
CloseNoBroadcast(ml) == [ml EXCEPT !.writing = FALSE]

\* a pullLayer that returns without closing its writer
CloseNever(ml) == ml

\* memoryLayerWriter.Close: clears writing, cond.Broadcast() wakes every waiter
Close(ml) == [ml EXCEPT !.writing = FALSE, !.cond = {}]

\* memoryLayer.Wait, entered or woken: "error" (no writer to wait on),
\* "block" (cond.Wait()) or "return" (nil)
WaitStep(ml, entering) ==
    IF entering /\ ml.contents = NilBytes THEN "error"
    ELSE IF ml.writing THEN "block"
    ELSE "return"

CurrentSize(ml) == len(ml.contents)
Size(ml) == ml.expectedSize

(* --------------------------- remote registry --------------------------- *)
\* the bytes of a remote blob: byte p of the blob has value p
RemoteBlob == [p \in 1 .. BlobSize |-> p - 1]

\* what GetBlob(name, dgst, offset) of a well-behaved registry announces
RemoteLength(offset) == IF offset > BlobSize THEN 0 ELSE BlobSize - offset

\* the first n bytes the reader GetBlob returned at offset delivers
RemoteBytes(offset, n) == SubSeq(RemoteBlob, offset + 1, offset + n)

(* ------------------------- what Init draws from ------------------------ *)
\* layers an earlier, ended pull can have left in the store: never touched,
\* GetBlob failed (empty, no size), copy ended after j bytes
PresetLayers ==
    {newMemoryLayer, [newMemoryLayer EXCEPT !.contents = <<>>]}
    \cup {[newMemoryLayer EXCEPT !.contents = SubSeq(RemoteBlob, 1, j),
                                 !.expectedSize = BlobSize] : j \in 0 .. BlobSize}

\* a layer another invocation is writing now
LockedLayers == {[ml EXCEPT !.writing = TRUE] : ml \in PresetLayers \ {newMemoryLayer}}

\* the store an earlier pull that succeeded leaves: every layer complete
CompleteLayer ==
    [newMemoryLayer EXCEPT !.contents = RemoteBlob, !.expectedSize = BlobSize]

\* stores a Pull starts from: new layers, but for the layer of digest 0, which
\* an earlier pull may have left in any state
PullStores ==
    {[d \in Digests |-> IF d = 0 THEN ml ELSE newMemoryLayer] : ml \in PresetLayers}

\* stores a Push starts from: the n layers of a pulled image, but for the layer of
\* digest 0, which may be in any state, also locked by a writer
PushStores(n) ==
    {[d \in Digests |-> IF d = 0 THEN ml ELSE IF d < n THEN CompleteLayer
                        ELSE newMemoryLayer] : ml \in PresetLayers \cup LockedLayers}

\* manifests of n layers: pairwise distinct digests, or layer 1 repeating the
\* digest of layer 0
Manifests(n) ==
    {[k \in 1 .. n |-> k - 1]}
    \cup {[k \in 1 .. n |-> IF k = 2 THEN 0 ELSE k - 1] : x \in {y \in {2} : y <= n}}

NoCalls ==
    [GetImageManifest |-> 0, WriteManifest |-> 0, PutImageManifest |-> 0,
     GetBlob |-> [k \in Layers |-> 0], BlobLength |-> [k \in Layers |-> 0],
     InitiateBlobUpload |-> [k \in Layers |-> 0], UploadBlob |-> [k \in Layers |-> 0]]

\* no call was made on the layer of SpecLayer
NoCall == [call |-> "none", err |-> "nil", before |-> newMemoryLayer, closed |-> FALSE]

InitLayer ==
    /\ layer = newMemoryLayer
    /\ writers = <<>>
    /\ waiters = [w \in 1 .. MaxWaiters |-> "idle"]
    /\ last = NoCall

\* no Base method was called
NoBaseCall == [method |-> "none", path |-> <<>>, destPath |-> <<>>, offset |-> 0]
NoBaseRet == [err |-> "none", path |-> <<>>]

InitBase ==
    /\ baseCall = NoBaseCall
    /\ baseRet = NoBaseRet
    /\ driverCalls = <<>>

\* the empty function: make(map[string]StorageDriverFactory)
EmptyMap == [n \in {} |-> "nil"]

NoFactoryCall ==
    [call |-> "none", name |-> "", factory |-> "nil", parameters |-> 0,
     before |-> EmptyMap, outcome |-> "none", created |-> "nil"]

InitFactory ==
    /\ driverFactories = EmptyMap
    /\ factoryLast = NoFactoryCall

\* what Walk returned: an error with the path it is about, nil, or nothing yet
WalkError(err, path) == [err |-> err, path |-> path]
WalkNil == WalkError("nil", <<>>)
WalkRunning == WalkError("running", <<>>)

NoFaults == [List |-> {}, Stat |-> {}, GetContent |-> {}, Delete |-> {}]

\* no file, no directory, no Walk
InitWalkIdle ==
    /\ namespace = [dirs |-> {}, files |-> EmptyMap]
    /\ faulty = NoFaults
    /\ walkFn = "none"
    /\ walkStack = <<>>
    /\ walkRet = WalkError("none", <<>>)
    /\ visited = <<>>
    /\ fnResult = EmptyMap

\* PurgeUploads is not called
InitPurgeIdle ==
    /\ purgePc = "none"
    /\ olderThan = 0
    /\ actuallyDelete = FALSE
    /\ uploads = EmptyMap
    /\ inUploadDir = FALSE
    /\ errors = <<>>
    /\ deleted = <<>>
    /\ ranged = {}
    /\ deleteCalls = <<>>

\* the storage side before any call
\* the zero value of distribution.Descriptor
NoDescriptor == [Digest |-> "", MediaType |-> "", Length |-> 0]

\* no blobServer
NoBlobServer ==
    [statter |-> [err |-> "none", desc |-> NoDescriptor],
     pathFn |-> [err |-> "none", path |-> ""],
     URLFor |-> [err |-> "none", url |-> ""],
     newFileReader |-> [err |-> "none"]]

\* a response nothing was written to; Header is filled in by InitSpecBlob
NoResponse == [Header |-> <<>>, wrote |-> "none", status |-> 0, location |-> ""]

\* ServeBlob is not called
InitBlobIdle ==
    /\ blobServer = NoBlobServer
    /\ blobDgst = ""
    /\ responseWriter = NoResponse
    /\ serveRet = "none"
    /\ serveCalls = <<>>

\* no manifest: manifestStorage: make(map[string]*manifest.SignedManifest)
NoManifestCall == [call |-> "none", name |-> <<>>, tag |-> <<>>, manifest |-> 0, err |-> "nil"]

InitManifest ==
    /\ manifestStorage = EmptyMap
    /\ manifestWrites = <<>>
    /\ manifestLast = NoManifestCall

InitStorage ==
    /\ InitBase /\ InitFactory /\ InitWalkIdle /\ InitPurgeIdle /\ InitBlobIdle
    /\ InitManifest

\* no goroutine spawned, nothing called, nothing received
InitIdle ==
    /\ i = 0
    /\ spc = "start"
    /\ ret = NoError
    /\ cancelCh = "open"
    /\ received = <<>>
    /\ wpc = [k \in Layers |-> "idle"]
    /\ werr = [k \in Layers |-> NoError]
    /\ wbuf = [k \in Layers |-> <<>>]
    /\ wlen = [k \in Layers |-> 0]
    /\ calls = NoCalls
    /\ getBlobOffset = [k \in Layers |-> -1]
    /\ firstFail = -1
    /\ faults = 0

Init ==
    /\ InitLayer
    /\ InitIdle
    /\ InitStorage
    /\ op \in {"pull", "push"}
    /\ remoteBlobs \in IF op = "pull" THEN {Digests}
                       ELSE {{}, {d \in Digests : d % 2 = 0}}
    /\ \E n \in 0 .. MaxLayers :
        /\ \E fs \in Manifests(n), h \in {n, n + 1}, f \in BOOLEAN :
              /\ op = "pull" => f
              /\ op = "push" => h = n
              /\ manifest = [found |-> f, FSLayers |-> fs, History |-> h]
        /\ layerStorage \in IF op = "pull" THEN PullStores ELSE PushStores(n)
    /\ preset = layerStorage[0]

\* no Pull and no Push runs, the object store is empty
NoTransfer ==
    /\ InitLayer
    /\ InitIdle
    /\ op = "none"
    /\ remoteBlobs = {}
    /\ manifest = [found |-> FALSE, FSLayers |-> <<>>, History |-> 0]
    /\ layerStorage = [d \in Digests |-> newMemoryLayer]
    /\ preset = newMemoryLayer

(* ------------------------------ scheduler ------------------------------ *)
nLayers == Len(manifest.FSLayers)
digest(k) == manifest.FSLayers[k + 1]

\* a window one layer too wide
pullDependentLayerWide(i_) == i_ - simultaneousLayerPullWindow - 1
pushDependentLayerWide(i_) == i_ - simultaneousLayerPushWindow - 1

\* dependentLayer := i - simultaneousLayerPullWindow
pullDependentLayer(i_) == i_ - simultaneousLayerPullWindow
pushDependentLayer(i_) == i_ - simultaneousLayerPushWindow
dependentLayer == IF op = "pull" THEN pullDependentLayer(i) ELSE pushDependentLayer(i)

\* a loop that ends with the last spawn
pullLoopCondShort(i_, n) == i_ < n

\* the loop condition: i < len(manifest.FSLayers)+simultaneousLayerPullWindow
pullLoopCond(i_, n) == i_ < n + simultaneousLayerPullWindow
pushLoopCond(i_, n) == i_ < n + simultaneousLayerPushWindow
loopCond == IF op = "pull" THEN pullLoopCond(i, nLayers) ELSE pushLoopCond(i, nLayers)

\* the client fails a call or a stream (fault), or does not
ClientOutcome(fault) ==
    /\ fault => faults < MaxFaults
    /\ faults' = IF fault THEN faults + 1 ELSE faults

\* a scheduler that drops the error it receives
abortsNever(err) == FALSE

\* if err != nil { close(cancelCh); return err }
aborts(err) == err # NoError

\* the goroutine of layer k ends pullLayer/pushLayer with err and goes to its select
Finish(k, err) ==
    /\ werr' = [werr EXCEPT ![k] = err]
    /\ wpc' = [wpc EXCEPT ![k] = "send"]
    /\ firstFail' = IF err # NoError /\ firstFail = -1 THEN k ELSE firstFail

\* a Pull that goes on to the loop with whatever manifest it got
PullStartUnchecked ==
    /\ op = "pull" /\ spc = "start"
    /\ calls' = [calls EXCEPT !.GetImageManifest = @ + 1]
    /\ \E clientErr \in BOOLEAN :
        /\ ClientOutcome(clientErr)
        /\ ret' = IF clientErr THEN LayerError("GetImageManifest", -1) ELSE ret
        /\ spc' = IF ret' # NoError THEN "done" ELSE "loop"
    /\ UNCHANGED <<cvars, i, cancelCh, received, wpc, werr, wbuf, wlen,
                   layerStorage, getBlobOffset, firstFail>>

\* Pull up to the loop: GetImageManifest, the two checks of the manifest
PullStart ==
    /\ op = "pull" /\ spc = "start"
    /\ calls' = [calls EXCEPT !.GetImageManifest = @ + 1]
    /\ \E clientErr \in BOOLEAN :
        /\ ClientOutcome(clientErr)
        /\ ret' = IF clientErr THEN LayerError("GetImageManifest", -1)
                  ELSE IF Len(manifest.FSLayers) # manifest.History
                       THEN LayerError("Length of history not equal to number of layers", -1)
                  ELSE IF Len(manifest.FSLayers) = 0
                       THEN LayerError("Image has no layers", -1)
                  ELSE ret
        /\ spc' = IF ret' # NoError THEN "done" ELSE "loop"
    /\ UNCHANGED <<cvars, i, cancelCh, received, wpc, werr, wbuf, wlen,
                   layerStorage, getBlobOffset, firstFail>>

\* Push up to the loop: objectStore.Manifest
PushStart ==
    /\ op = "push" /\ spc = "start"
    /\ IF ~manifest.found THEN
            /\ ret' = LayerError("No manifest found", -1) /\ spc' = "done"
       ELSE /\ ret' = ret /\ spc' = "loop"
    /\ UNCHANGED <<faults, cvars, i, cancelCh, received, wpc, werr, wbuf, wlen,
                   layerStorage, calls, getBlobOffset, firstFail>>

\* a scheduler that takes the result of whichever goroutine is ready to send
ReceiveAnyOrder ==
    /\ spc = "loop" /\ loopCond
    /\ dependentLayer >= 0
    /\ \E k \in Layers :
        /\ wpc[k] = "send"
        /\ received' = Append(received, [layer |-> k, err |-> werr[k]])
        /\ wpc' = [wpc EXCEPT ![k] = "done"]
        /\ IF aborts(werr[k]) THEN
                /\ cancelCh' = "closed"
                /\ ret' = werr[k]
                /\ spc' = "done"
           ELSE /\ spc' = "spawn"
                /\ UNCHANGED <<cancelCh, ret>>
    /\ UNCHANGED <<faults, cvars, i, werr, wbuf, wlen, layerStorage, calls,
                   getBlobOffset, firstFail>>

\* err := <-errChans[dependentLayer], met by the send of goroutine dependentLayer
Receive ==
    /\ spc = "loop" /\ loopCond
    /\ dependentLayer >= 0
    /\ wpc[dependentLayer] = "send"
    /\ received' = Append(received, [layer |-> dependentLayer, err |-> werr[dependentLayer]])
    /\ wpc' = [wpc EXCEPT ![dependentLayer] = "done"]
    /\ IF aborts(werr[dependentLayer]) THEN
            /\ cancelCh' = "closed"
            /\ ret' = werr[dependentLayer]
            /\ spc' = "done"
       ELSE /\ spc' = "spawn"
            /\ UNCHANGED <<cancelCh, ret>>
    /\ UNCHANGED <<faults, cvars, i, werr, wbuf, wlen, layerStorage, calls,
                   getBlobOffset, firstFail>>

\* if i < len(manifest.FSLayers) { go func(i int) {...}(i) }; i++
Spawn ==
    /\ \/ spc = "spawn"
       \/ spc = "loop" /\ loopCond /\ dependentLayer < 0
    /\ wpc' = IF i < nLayers THEN [wpc EXCEPT ![i] = "run"] ELSE wpc
    /\ i' = i + 1
    /\ spc' = "loop"
    /\ UNCHANGED <<faults, cvars, ret, cancelCh, received, werr, wbuf, wlen,
                   layerStorage, calls, getBlobOffset, firstFail>>

PullReceive == op = "pull" /\ Receive
PushReceive == op = "push" /\ Receive
PullSpawn == op = "pull" /\ Spawn
PushSpawn == op = "push" /\ Spawn

\* after the loop: objectStore.WriteManifest(name, tag, manifest)
PullWriteManifest ==
    /\ op = "pull" /\ spc = "loop" /\ ~loopCond
    /\ calls' = [calls EXCEPT !.WriteManifest = @ + 1]
    /\ ret' = NoError
    /\ spc' = "done"
    /\ UNCHANGED <<faults, cvars, i, cancelCh, received, wpc, werr, wbuf, wlen,
                   layerStorage, getBlobOffset, firstFail>>

\* after the loop: c.PutImageManifest(name, tag, manifest)
PushPutManifest ==
    /\ op = "push" /\ spc = "loop" /\ ~loopCond
    /\ calls' = [calls EXCEPT !.PutImageManifest = @ + 1]
    /\ \E clientErr \in BOOLEAN :
        /\ ClientOutcome(clientErr)
        /\ ret' = IF clientErr THEN LayerError("PutImageManifest", -1) ELSE NoError
    /\ spc' = "done"
    /\ UNCHANGED <<cvars, i, cancelCh, received, wpc, werr, wbuf, wlen,
                   layerStorage, getBlobOffset, firstFail>>

\* a goroutine that only sends, errChans[i] <- ..., without the case <-cancelCh
SendOnly(k) ==
    /\ wpc[k] = "send" /\ cancelCh = "closed"
    /\ FALSE
    /\ UNCHANGED <<pvars, lvars>>

\* select { case errChans[i] <- ...: (Receive) ; case <-cancelCh: }
Cancelled(k) ==
    /\ wpc[k] = "send" /\ cancelCh = "closed"
    /\ wpc' = [wpc EXCEPT ![k] = "exit"]
    /\ UNCHANGED <<faults, cvars, i, spc, ret, cancelCh, received, werr, wbuf, wlen,
                   layerStorage, calls, getBlobOffset, firstFail>>

(* ------------------------------ pullLayer ------------------------------ *)
wvars == <<cvars, i, spc, ret, cancelCh, received>>

\* objectStore.Layer(fsLayer.BlobSum) and layer.Writer(), with the ways on:
\* an error of the store (storeErr, which an ObjectStore other than the one in
\* memory can give), ErrLayerAlreadyExists, ErrLayerLocked, or a writer
PullLayerWriter(k) ==
    /\ op = "pull" /\ wpc[k] = "run"
    /\ \E storeErr \in {"nil", "ObjectStore.Layer", "Writer"} :
        LET ml == layerStorage[digest(k)]
            err == IF storeErr # "nil" THEN storeErr ELSE WriterErr(ml)
        IN  /\ ClientOutcome(storeErr # "nil")
            /\ IF err = ErrLayerAlreadyExists THEN
                    /\ Finish(k, NoError)
                    /\ UNCHANGED <<layerStorage, wbuf>>
               ELSE IF err = ErrLayerLocked THEN
                    /\ wpc' = [wpc EXCEPT ![k] = "wait"]
                    /\ UNCHANGED <<layerStorage, wbuf, werr, firstFail>>
               ELSE IF err # "nil" THEN
                    /\ Finish(k, LayerError(err, k))
                    /\ UNCHANGED <<layerStorage, wbuf>>
               ELSE /\ layerStorage' = [layerStorage EXCEPT ![digest(k)] = WriterAcquire(ml)]
                    /\ wbuf' = [wbuf EXCEPT ![k] = WriterAcquire(ml).contents]
                    /\ wpc' = [wpc EXCEPT ![k] = "getblob"]
                    /\ UNCHANGED <<werr, firstFail>>
    /\ UNCHANGED <<wvars, wlen, calls, getBlobOffset>>

\* layer.Wait() after ErrLayerLocked, entered (pc "wait") or woken by a
\* Broadcast (pc "waiting", no longer in cond); its error is dropped
PullLayerWait(k) ==
    /\ op = "pull"
    /\ \/ wpc[k] = "wait"
       \/ wpc[k] = "waiting" /\ k \notin layerStorage[digest(k)].cond
    /\ LET ml == layerStorage[digest(k)]
           step == WaitStep(ml, wpc[k] = "wait")
       IN  IF step = "block" THEN
                /\ layerStorage' = [layerStorage EXCEPT ![digest(k)].cond = @ \cup {k}]
                /\ wpc' = [wpc EXCEPT ![k] = "waiting"]
                /\ UNCHANGED <<werr, firstFail>>
           ELSE /\ Finish(k, NoError)
                /\ UNCHANGED layerStorage
    /\ UNCHANGED <<faults, wvars, wbuf, wlen, calls, getBlobOffset>>

\* c.GetBlob(name, fsLayer.BlobSum, layerWriter.CurrentSize()), which may fail;
\* layerWriter.SetSize(CurrentSize()+length); io.Copy(layerWriter, layerReader),
\* which delivers n of the announced bytes and may end with a read error (a
\* stream that ends early without one is one byte short); the check of the size;
\* on every way out the deferred layerWriter.Close()
PullLayerTransfer(k) ==
    /\ op = "pull" /\ wpc[k] = "getblob"
    /\ calls' = [calls EXCEPT !.GetBlob[k] = @ + 1]
    /\ getBlobOffset' = [getBlobOffset EXCEPT ![k] = CurrentSize(layerStorage[digest(k)])]
    /\ \E clientErr \in BOOLEAN :
        IF clientErr THEN
            /\ ClientOutcome(TRUE)
            /\ layerStorage' = [layerStorage EXCEPT ![digest(k)] = Close(@)]
            /\ Finish(k, LayerError("GetBlob", k))
            /\ UNCHANGED <<wlen, wbuf>>
        ELSE
            \E n \in 0 .. RemoteLength(CurrentSize(layerStorage[digest(k)])),
               readErr \in BOOLEAN :
                LET ml0 == layerStorage[digest(k)]
                    length == RemoteLength(CurrentSize(ml0))
                    ml1 == SetSize(ml0, CurrentSize(ml0) + length)
                    p == RemoteBytes(CurrentSize(ml0), n)
                    wrote == n > 0
                    ml2 == IF wrote THEN Write(ml1, wbuf[k], p) ELSE ml1
                    copyErr == IF wrote /\ WriteErr(ml1) # "nil" THEN WriteErr(ml1)
                               ELSE IF readErr THEN "read" ELSE "nil"
                IN  /\ readErr => n < length
                    /\ ~readErr => n >= length - 1
                    /\ ClientOutcome(n < length)
                    /\ wlen' = [wlen EXCEPT ![k] = length]
                    /\ wbuf' = [wbuf EXCEPT ![k] =
                                    IF wrote THEN WriteBuffer(ml1, @, p) ELSE @]
                    /\ layerStorage' = [layerStorage EXCEPT ![digest(k)] = Close(ml2)]
                    /\ Finish(k, IF copyErr # "nil" THEN LayerError("Copy", k)
                                 ELSE IF CurrentSize(ml2) # Size(ml2)
                                      THEN LayerError("Wrote incorrect number of bytes", k)
                                 ELSE NoError)
    /\ UNCHANGED wvars

(* ------------------------------ pushLayer ------------------------------ *)
\* the test of the length turned round
alreadyExistsInverted(length) == length < 0

\* if length >= 0 { "Layer already exists"; return nil }
alreadyExists(length) == length >= 0

\* objectStore.Layer, layer.Reader() and the check CurrentSize() != Size(), then
\* c.BlobLength(name, fsLayer.BlobSum): an error, a length >= 0, or a negative one
PushLayerBlobLength(k) ==
    /\ op = "push" /\ wpc[k] = "run"
    /\ LET ml == layerStorage[digest(k)]
       IN  IF ReaderErr(ml) # "nil" THEN
                /\ Finish(k, LayerError(ReaderErr(ml), k))
                /\ UNCHANGED <<calls, wlen, faults>>
           ELSE IF CurrentSize(ml) # Size(ml) THEN
                /\ Finish(k, LayerError("Local layer incomplete", k))
                /\ UNCHANGED <<calls, wlen, faults>>
           ELSE /\ calls' = [calls EXCEPT !.BlobLength[k] = @ + 1]
                /\ \E outcome \in {"error", IF digest(k) \in remoteBlobs THEN "present"
                                               ELSE "absent"} :
                    LET length == IF outcome = "present" THEN BlobSize ELSE -1
                    IN  /\ ClientOutcome(outcome = "error")
                        /\ wlen' = [wlen EXCEPT ![k] = length]
                        /\ IF outcome = "error" THEN Finish(k, LayerError("BlobLength", k))
                           ELSE IF alreadyExists(length) THEN Finish(k, NoError)
                           ELSE /\ wpc' = [wpc EXCEPT ![k] = "initiate"]
                                /\ UNCHANGED <<werr, firstFail>>
    /\ UNCHANGED <<wvars, wbuf, layerStorage, getBlobOffset>>

\* c.InitiateBlobUpload(name)
PushLayerInitiate(k) ==
    /\ op = "push" /\ wpc[k] = "initiate"
    /\ calls' = [calls EXCEPT !.InitiateBlobUpload[k] = @ + 1]
    /\ \E clientErr \in BOOLEAN :
        /\ ClientOutcome(clientErr)
        /\ IF clientErr THEN Finish(k, LayerError("InitiateBlobUpload", k))
           ELSE /\ wpc' = [wpc EXCEPT ![k] = "upload"]
                /\ UNCHANGED <<werr, firstFail>>
    /\ UNCHANGED <<wvars, wbuf, wlen, layerStorage, getBlobOffset>>

\* c.UploadBlob(location, layerReader, int(layerReader.CurrentSize()), BlobSum)
PushLayerUpload(k) ==
    /\ op = "push" /\ wpc[k] = "upload"
    /\ calls' = [calls EXCEPT !.UploadBlob[k] = @ + 1]
    /\ \E clientErr \in BOOLEAN :
        /\ ClientOutcome(clientErr)
        /\ Finish(k, IF clientErr THEN LayerError("UploadBlob", k) ELSE NoError)
    /\ UNCHANGED <<wvars, wbuf, wlen, layerStorage, getBlobOffset>>

(* --------------------------- specification ----------------------------- *)
Next ==
    \/ PullStart \/ PullReceive \/ PullSpawn \/ PullWriteManifest
    \/ PushStart \/ PushReceive \/ PushSpawn \/ PushPutManifest
    \/ \E k \in Layers :
        \/ PullLayerWriter(k) \/ PullLayerWait(k) \/ PullLayerTransfer(k)
        \/ PushLayerBlobLength(k) \/ PushLayerInitiate(k)
        \/ PushLayerUpload(k)
        \/ Cancelled(k)

vars == <<pvars, lvars>>

Spec == Init /\ [][Next]_vars

(* ------------------- one layer and its callers ------------------------- *)
\* Any number of goroutines call Writer, Reader and Wait on one memoryLayer
\* and SetSize, Write and Close on the writers it handed out, in any order;
\* a goroutine may keep a writer after it closed it and call it again.
Handles == DOMAIN writers

\* the byte slice a goroutine passes to Write
Chunk == <<0>>

\* a method of the layer returned err
Returned_(call, err) ==
    last' = [call |-> call, err |-> err, before |-> layer, closed |-> FALSE]

\* a method of the writer with handle h returned err; closed: Close had been
\* called on that writer before
ReturnedBy(h, call, err) ==
    last' = [call |-> call, err |-> err, before |-> layer, closed |-> writers[h].closed]

\* layer.Writer(): bytes.NewBuffer(ml.contents) is the new writer's buffer
LayerWriter ==
    /\ Len(writers) < MaxWriters
    /\ IF WriterErr(layer) = "nil"
       THEN /\ layer' = WriterAcquire(layer)
            /\ writers' = Append(writers, [buffer |-> layer'.contents,
                                           closed |-> FALSE])
       ELSE UNCHANGED <<layer, writers>>
    /\ Returned_("Writer", WriterErr(layer))
    /\ UNCHANGED <<pvars, waiters>>

\* writer.SetSize(size)
WriterSetSize(h, size) ==
    /\ layer' = SetSize(layer, size)
    /\ ReturnedBy(h, "SetSize", SetSizeErr(layer))
    /\ UNCHANGED <<pvars, writers, waiters>>

\* writer.Write(p)
WriterWrite(h) ==
    /\ Len(writers[h].buffer) < MaxSize
    /\ layer' = Write(layer, writers[h].buffer, Chunk)
    /\ writers' = [writers EXCEPT ![h].buffer = WriteBuffer(layer, @, Chunk)]
    /\ ReturnedBy(h, "Write", WriteErr(layer))
    /\ UNCHANGED <<pvars, waiters>>

\* writer.Close(), on a writer that is open or was closed before
WriterClose(h) ==
    /\ layer' = Close(layer)
    /\ writers' = [writers EXCEPT ![h].closed = TRUE]
    /\ ReturnedBy(h, "Close", "nil")
    /\ UNCHANGED <<pvars, waiters>>

\* layer.Reader()
LayerReader ==
    /\ Returned_("Reader", ReaderErr(layer))
    /\ UNCHANGED <<pvars, layer, writers, waiters>>

\* what a goroutine in Wait does with the lock held
WaitOutcome(w, entering) ==
    LET step == WaitStep(layer, entering) IN
    /\ waiters' = [waiters EXCEPT ![w] = CASE step = "error" -> "error"
                                           [] step = "block" -> "waiting"
                                           [] OTHER -> "returned"]
    /\ layer' = IF step = "block" THEN [layer EXCEPT !.cond = @ \cup {w}] ELSE layer
    /\ UNCHANGED <<pvars, writers, last>>

\* goroutine w calls layer.Wait()
LayerWait(w) ==
    /\ waiters[w] = "idle"
    /\ WaitOutcome(w, TRUE)

\* goroutine w, woken by a Broadcast, gets the lock back and tests ml.writing again
LayerWaitWake(w) ==
    /\ waiters[w] = "waiting" /\ w \notin layer.cond
    /\ WaitOutcome(w, FALSE)

InitSpecLayer ==
    /\ InitLayer
    /\ InitIdle
    /\ InitStorage
    /\ op = "layer"
    /\ remoteBlobs = {}
    /\ manifest = [found |-> FALSE, FSLayers |-> <<>>, History |-> 0]
    /\ layerStorage = [d \in Digests |-> newMemoryLayer]
    /\ preset = newMemoryLayer

NextLayer ==
    \/ LayerWriter
    \/ LayerReader
    \/ \E h \in Handles :
        \/ \E size \in 0 .. MaxSize : WriterSetSize(h, size)
        \/ WriterWrite(h)
        \/ WriterClose(h)
    \/ \E w \in 1 .. MaxWaiters : LayerWait(w) \/ LayerWaitWake(w)

\* the runtime runs a goroutine that a Broadcast has woken
SpecLayer ==
    /\ InitSpecLayer
    /\ [][NextLayer]_vars
    /\ \A w \in 1 .. MaxWaiters : WF_vars(LayerWaitWake(w))

(* ------------------------- Pull / Push: claims ------------------------- *)
Window == IF op = "pull" THEN simultaneousLayerPullWindow ELSE simultaneousLayerPushWindow

Min(S) == CHOOSE x \in S : \A y \in S : x <= y

\* goroutines between their spawn and the receipt of their result by the scheduler
InFlight == {k \in Layers : wpc[k] \notin {"idle", "done"}}

\* goroutines whose pullLayer/pushLayer has returned
Returned == {k \in Layers : wpc[k] \in {"send", "done", "exit"}}

\* layers whose pullLayer/pushLayer returned an error
Failed == {k \in Returned : werr[k] # NoError}

\* C1: at every instant of a Pull or Push at most W = 4 goroutines are between
\* their spawn and the receipt of their result by the scheduler
C1_WindowBound == Cardinality(InFlight) <= Window

\* the window is full after it has slid: a result was received, W are in flight
C1_Witness ==
    /\ Len(received) > 0
    /\ Cardinality(InFlight) = Window
    /\ \A k \in InFlight : wpc[k] \notin {"send", "exit"}

\* C2: when Pull/Push has returned and some layer has failed, the error returned
\* is that of the lowest-indexed failed layer, whichever goroutine failed first
C2_FirstErrorWins ==
    (spc = "done" /\ Failed # {}) => ret = werr[Min(Failed)] /\ ret.layer = Min(Failed)

\* two layers failed, the higher-indexed one first, and the lower one is returned
C2_Witness ==
    /\ spc = "done" /\ Cardinality(Failed) >= 2
    /\ firstFail > Min(Failed)
    /\ ret.layer = Min(Failed)

\* C3: the goroutine of layer k >= W is spawned only after nil was received for
\* every layer 0 .. k-W, and results are received in increasing index order
C3_SpawnAfterDependent ==
    /\ \A m \in 1 .. Len(received) : received[m].layer = m - 1
    /\ \A k \in Layers :
        (k >= Window /\ wpc[k] # "idle") =>
            /\ Len(received) >= k - Window + 1
            /\ \A j \in 0 .. k - Window : received[j + 1].err = NoError

\* the goroutine of layer W runs, in a Pull and in a Push
C3_Witness ==
    /\ op = "push"
    /\ wpc[Window] = "initiate"
    /\ Len(received) = 1

\* C4: once the pull of a layer k has failed, no goroutine of an index above
\* k + W - 1 is ever spawned, WriteManifest is never called, and Pull returns
\* the error of the lowest-indexed failed layer
C4_FailedPullStops ==
    (op = "pull" /\ Failed # {}) =>
        /\ \A k \in Failed : \A j \in Layers : j > k + Window - 1 => wpc[j] = "idle"
        /\ calls.WriteManifest = 0
        /\ spc = "done" => ret = werr[Min(Failed)]

\* GetBlob failed for layer 0 of 5: Pull is over, layer 4 was never spawned
C4_Witness ==
    /\ op = "pull" /\ spc = "done" /\ nLayers = MaxLayers
    /\ Failed = {0} /\ werr[0].kind = "GetBlob" /\ ret = werr[0]
    /\ \A k \in 1 .. Window - 1 : wpc[k] = "exit"
    /\ wpc[Window] = "idle"

Distinct == \A j, k \in 1 .. nLayers : manifest.FSLayers[j] = manifest.FSLayers[k] => j = k

\* C5: a Pull of N >= 1 distinct layers into a store holding none of them, with
\* a client that never fails, returns nil after one GetBlob per layer and one
\* WriteManifest, made after nil was received for all N layers
C5_CleanPull ==
    (/\ op = "pull" /\ Distinct /\ nLayers >= 1 /\ manifest.History = nLayers
     /\ preset = newMemoryLayer /\ faults = 0) =>
        /\ spc = "done" =>
            /\ ret = NoError
            /\ \A k \in 0 .. nLayers - 1 : calls.GetBlob[k] = 1
            /\ calls.WriteManifest = 1
        /\ \A k \in Layers : calls.GetBlob[k] <= 1
        /\ calls.WriteManifest > 0 =>
            /\ Len(received) = nLayers
            /\ \A m \in 1 .. nLayers : received[m] = [layer |-> m - 1, err |-> NoError]

C5_Witness ==
    /\ op = "pull" /\ Distinct /\ nLayers = MaxLayers /\ manifest.History = nLayers
    /\ preset = newMemoryLayer /\ faults = 0
    /\ spc = "done" /\ calls.WriteManifest = 1
    /\ \A k \in 0 .. nLayers - 1 : layerStorage[k] = CompleteLayer

ComponentChars ==
    {"A", "B", "C", "D", "E", "F", "G", "H", "I", "J", "K", "L", "M", "N",
     "O", "P", "Q", "R", "S", "T", "U", "V", "W", "X", "Y", "Z", "a", "b",
     "c", "d", "e", "f", "g", "h", "i", "j", "k", "l", "m", "n", "o", "p",
     "q", "r", "s", "t", "u", "v", "w", "x", "y", "z", "0", "1", "2", "3",
     "4", "5", "6", "7", "8", "9", ".", "_", "-"}

\* PathRegexp = `^(/[A-Za-z0-9._-]+)+$`, run over s from position pos; at
\* "group" the next character has to be the "/" that opens a group, at "first"
\* the first character of the class, at "more" the class may go on, a new group
\* may open, or the string may end
RECURSIVE PathRegexpRun(_, _, _)

\* a regexp that takes empty components: `^(/[A-Za-z0-9._-]*)+$`
PathRegexpRunEmpty(s, pos, at) ==
    IF pos > Len(s) THEN at \in {"first", "more"}
    ELSE IF s[pos] = "/" THEN PathRegexpRun(s, pos + 1, "first")
    ELSE at # "group" /\ s[pos] \in ComponentChars /\ PathRegexpRun(s, pos + 1, "more")

PathRegexpRun(s, pos, at) ==
    IF pos > Len(s) THEN at = "more"
    ELSE CASE at = "group" -> s[pos] = "/" /\ PathRegexpRun(s, pos + 1, "first")
           [] at = "first" -> s[pos] \in ComponentChars
                              /\ PathRegexpRun(s, pos + 1, "more")
           [] OTHER -> \/ s[pos] \in ComponentChars /\ PathRegexpRun(s, pos + 1, "more")
                       \/ s[pos] = "/" /\ PathRegexpRun(s, pos + 1, "first")

\* storagedriver.PathRegexp.MatchString(path)
PathRegexpMatchString(path) == PathRegexpRun(path, 1, "group")

\* the characters the paths of SpecBase are made of: the separator, two of the
\* class and one outside it
PathAlphabet == {"/", "a", "_", "*"}

RECURSIVE StringsOfLen(_)
StringsOfLen(n) ==
    IF n = 0 THEN {<<>>}
    ELSE {Append(s, c) : s \in StringsOfLen(n - 1), c \in PathAlphabet}

\* every string of at most MaxPathLen characters
Paths == UNION {StringsOfLen(n) : n \in 0 .. MaxPathLen}

Offsets == -1 .. MaxOffset

\* context.WithTrace(ctx) over the caller's context, and over context.Background()
CallerTraced == [parent |-> "caller", trace |-> TRUE]
BackgroundTraced == [parent |-> "background", trace |-> TRUE]

InvalidPathError(path) == [err |-> "InvalidPathError", path |-> path]
InvalidOffsetError(path) == [err |-> "InvalidOffsetError", path |-> path]

\* return base.StorageDriver.<method>(ctx, ...): the wrapped driver gets the call
\* and Base returns what it returns
BaseForward(ctx) ==
    /\ driverCalls' = Append(driverCalls, [call |-> baseCall', ctx |-> ctx])
    /\ baseRet' = [err |-> "driver", path |-> <<>>]

\* return ..., <error>: the wrapped driver is not called
BaseReject(error) ==
    /\ baseRet' = error
    /\ UNCHANGED driverCalls

\* the methods that check the path and forward
BaseChecksPath(method, path, ctx) ==
    /\ baseCall' = [method |-> method, path |-> path, destPath |-> <<>>, offset |-> 0]
    /\ IF ~PathRegexpMatchString(path) THEN BaseReject(InvalidPathError(path))
       ELSE BaseForward(ctx)
    /\ UNCHANGED exceptBase

\* a method that checks the path before the offset
BaseChecksPathFirst(method, path, offset, ctx) ==
    /\ baseCall' = [method |-> method, path |-> path, destPath |-> <<>>,
                    offset |-> offset]
    /\ IF ~PathRegexpMatchString(path) THEN BaseReject(InvalidPathError(path))
       ELSE IF offset < 0 THEN BaseReject(InvalidOffsetError(path))
       ELSE BaseForward(ctx)
    /\ UNCHANGED exceptBase

\* the methods that check the offset, then the path, and forward
BaseChecksOffset(method, path, offset, ctx) ==
    /\ baseCall' = [method |-> method, path |-> path, destPath |-> <<>>,
                    offset |-> offset]
    /\ IF offset < 0 THEN BaseReject(InvalidOffsetError(path))
       ELSE IF ~PathRegexpMatchString(path) THEN BaseReject(InvalidPathError(path))
       ELSE BaseForward(ctx)
    /\ UNCHANGED exceptBase

\* the caller of a method: any path, any offset
Called(method) == baseCall = NoBaseCall

BaseGetContent ==
    /\ Called("GetContent")
    /\ \E path \in Paths : BaseChecksPath("GetContent", path, CallerTraced)

\* ctx, done := context.WithTrace(context.Background())
BasePutContent ==
    /\ Called("PutContent")
    /\ \E path \in Paths : BaseChecksPath("PutContent", path, BackgroundTraced)

\* ctx, done := context.WithTrace(context.Background())
BaseReadStream ==
    /\ Called("ReadStream")
    /\ \E path \in Paths, offset \in Offsets :
        BaseChecksOffset("ReadStream", path, offset, BackgroundTraced)

BaseWriteStream ==
    /\ Called("WriteStream")
    /\ \E path \in Paths, offset \in Offsets :
        BaseChecksOffset("WriteStream", path, offset, CallerTraced)

BaseStat ==
    /\ Called("Stat")
    /\ \E path \in Paths : BaseChecksPath("Stat", path, CallerTraced)

\* if !PathRegexp.MatchString(path) && path != "/"
BaseList ==
    /\ Called("List")
    /\ \E path \in Paths :
        /\ baseCall' = [method |-> "List", path |-> path, destPath |-> <<>>,
                        offset |-> 0]
        /\ IF ~PathRegexpMatchString(path) /\ path # <<"/">>
           THEN BaseReject(InvalidPathError(path))
           ELSE BaseForward(CallerTraced)
        /\ UNCHANGED exceptBase

BaseMove ==
    /\ Called("Move")
    /\ \E sourcePath \in Paths, destPath \in Paths :
        /\ baseCall' = [method |-> "Move", path |-> sourcePath,
                        destPath |-> destPath, offset |-> 0]
        /\ IF ~PathRegexpMatchString(sourcePath)
           THEN BaseReject(InvalidPathError(sourcePath))
           ELSE IF ~PathRegexpMatchString(destPath)
           THEN BaseReject(InvalidPathError(destPath))
           ELSE BaseForward(CallerTraced)
        /\ UNCHANGED exceptBase

BaseDelete ==
    /\ Called("Delete")
    /\ \E path \in Paths : BaseChecksPath("Delete", path, CallerTraced)

BaseURLFor ==
    /\ Called("URLFor")
    /\ \E path \in Paths : BaseChecksPath("URLFor", path, CallerTraced)

InitSpecBase == NoTransfer /\ InitStorage

\* one call of one method
NextBase ==
    \/ BaseGetContent \/ BasePutContent \/ BaseReadStream \/ BaseWriteStream
    \/ BaseStat \/ BaseList \/ BaseMove \/ BaseDelete \/ BaseURLFor

SpecBase == InitSpecBase /\ [][NextBase]_vars

(* --------------------- storage driver: factory ------------------------- *)
\* the names drivers register under and are created by
DriverNames == {"filesystem", "inmemory", "s3"}

\* the StorageDriverFactory values given to Register: two factories and nil
Factories == {"f", "g"}
NilFactory == "nil"

\* the parameters given to Create
Parameters == 1 .. MaxParameters

\* a registration that never finds the name taken
registeredNever(table, name) == FALSE

\* _, registered := driverFactories[name]
registered(table, name) == name \in DOMAIN table

\* driverFactories[name] = factory
MapPut(table, name, factory) ==
    [n \in DOMAIN table \cup {name} |-> IF n = name THEN factory ELSE table[n]]

\* what factory.Create(parameters) returns
Product(factory, parameters) == [driver |-> factory, parameters |-> parameters]

InvalidStorageDriverError(name) == [err |-> "InvalidStorageDriverError", name |-> name]

\* Register(name, factory); a panic leaves the table as it is
Register ==
    \E name \in DriverNames, factory \in Factories \cup {NilFactory} :
        LET panics == factory = NilFactory \/ registered(driverFactories, name)
        IN  /\ driverFactories' = IF panics THEN driverFactories
                                  ELSE MapPut(driverFactories, name, factory)
            /\ factoryLast' = [call |-> "Register", name |-> name, factory |-> factory,
                               parameters |-> 0, before |-> driverFactories,
                               outcome |-> IF panics THEN "panic" ELSE "ok",
                               created |-> NilFactory]
            /\ UNCHANGED exceptFactory

\* Create(name, parameters)
Create ==
    \E name \in DriverNames, parameters \in Parameters :
        LET ok == name \in DOMAIN driverFactories
        IN  /\ factoryLast' = [call |-> "Create", name |-> name, factory |-> NilFactory,
                               parameters |-> parameters, before |-> driverFactories,
                               outcome |-> IF ~ok THEN InvalidStorageDriverError(name)
                                           ELSE Product(driverFactories[name], parameters),
                               created |-> IF ok THEN driverFactories[name]
                                           ELSE NilFactory]
            /\ UNCHANGED <<driverFactories, exceptFactory>>

InitSpecFactory == NoTransfer /\ InitStorage

NextFactory == Register \/ Create

SpecFactory == InitSpecFactory /\ [][NextFactory]_vars

(* ------------------------------- Walk ---------------------------------- *)
\* A path of the driver is the sequence of its components. The components, in
\* the order in which List returns the children of a directory:
ComponentOrder ==
    <<"_layers", "_uploads", "a", "b", "startedat", "u1", "u2", "u3", "u4", "u5">>

\* the path Walk starts from
root == <<"repositories">>

\* the directories and files a namespace is made of; u5 is a repository whose
\* name parses as a UUID
UniverseDirs ==
    {root \o p : p \in {<<"a">>, <<"a", "_uploads">>, <<"a", "_uploads", "u1">>,
                        <<"a", "_uploads", "u2">>, <<"a", "_layers">>,
                        <<"a", "_layers", "u3">>, <<"b">>, <<"b", "_uploads">>,
                        <<"b", "_uploads", "u4">>, <<"u5">>}}

UniverseFiles ==
    {Append(d, "startedat") : d \in {u \in UniverseDirs : Len(u) = Len(root) + 3}}

Parent(path) == SubSeq(path, 1, Len(path) - 1)
Base_(path) == path[Len(path)]

\* the sets of paths in which every path but the children of root has its parent
TreesOf(paths) ==
    {t \in SUBSET paths :
        \A q \in t : Len(q) > Len(root) + 1 => Parent(q) \in t}

\* fileInfo.IsDir()
IsDir(path) == path \in namespace.dirs

Exists(path) == path \in namespace.dirs \cup DOMAIN namespace.files

IndexOf(c) == CHOOSE n \in 1 .. Len(ComponentOrder) : ComponentOrder[n] = c

RECURSIVE Sorted(_)
\* the paths of a set of siblings, in the order of their last components
Sorted(paths) ==
    IF paths = {} THEN <<>>
    ELSE LET first == CHOOSE q \in paths :
                        \A r \in paths : IndexOf(Base_(q)) <= IndexOf(Base_(r))
         IN  <<first>> \o Sorted(paths \ {first})

\* what driver.List(ctx, from) returns when it succeeds
List(from) == Sorted({q \in namespace.dirs \cup DOMAIN namespace.files : Parent(q) = from})

ErrSkipDir == "skip this directory"

\* the innermost call of Walk
Top == walkStack[Len(walkStack)]

\* what a step of Walk leaves alone, the call of f apart
walkFrame == <<namespace, faulty, walkFn, exceptWalk>>

\* the innermost call of Walk returns err: to the caller of Walk, or to the
\* line `Walk(ctx, driver, child, f)` of the Walk that called it, which drops
\* what it gets and goes on with its next child
WalkReturns(err) ==
    /\ walkStack' = SubSeq(walkStack, 1, Len(walkStack) - 1)
    /\ walkRet' = IF Len(walkStack) = 1 THEN err ELSE walkRet

\* children, err := driver.List(ctx, from)
WalkList ==
    /\ walkStack # <<>> /\ Top.pc = "list"
    /\ IF Top.from \in faulty.List
       THEN WalkReturns(WalkError("List", Top.from))
       ELSE /\ walkStack' = [walkStack EXCEPT ![Len(walkStack)] =
                                [@ EXCEPT !.pc = "range", !.children = List(Top.from)]]
            /\ UNCHANGED walkRet
    /\ UNCHANGED <<walkFrame, visited, fnResult>>

\* a loop body that goes into every directory
WalkAfterFnNoSkip(child, err) ==
    /\ walkRet' = walkRet
    /\ walkStack' =
            SubSeq(walkStack, 1, Len(walkStack) - 1)
            \o IF IsDir(child)
               THEN <<[Top EXCEPT !.children = Tail(@)],
                      [from |-> child, pc |-> "list", children |-> <<>>]>>
               ELSE <<[Top EXCEPT !.children = Tail(@)]>>

\* the rest of the loop body after f(fileInfo) returned err for child
WalkAfterFn(child, err) ==
    LET skipDir == err = ErrSkipDir
        rest == [Top EXCEPT !.children = Tail(@)]
        outer == SubSeq(walkStack, 1, Len(walkStack) - 1)
    IN  IF err # "nil" /\ ~skipDir THEN WalkReturns(WalkError(err, child))
        ELSE /\ walkRet' = walkRet
             /\ walkStack' =
                    IF IsDir(child) /\ ~skipDir
                    THEN outer \o <<rest, [from |-> child, pc |-> "list",
                                          children |-> <<>>]>>
                    ELSE Append(outer, rest)

\* fileInfo, err := driver.Stat(ctx, child) fails
WalkStatFails ==
    /\ walkStack # <<>> /\ Top.pc = "range" /\ Top.children # <<>>
    /\ Head(Top.children) \in faulty.Stat
    /\ WalkReturns(WalkError("Stat", Head(Top.children)))
    /\ UNCHANGED <<walkFrame, visited, fnResult>>

\* the loop is over: return nil
WalkEnds ==
    /\ walkStack # <<>> /\ Top.pc = "range" /\ Top.children = <<>>
    /\ WalkReturns(WalkNil)
    /\ UNCHANGED <<walkFrame, visited, fnResult>>

\* the errors other than ErrSkipDir f has returned, and the ErrSkipDir
FnErrors == {q \in DOMAIN fnResult : fnResult[q] \notin {"nil", ErrSkipDir}}
FnSkips == {q \in DOMAIN fnResult : fnResult[q] = ErrSkipDir}

\* err = f(fileInfo) for any f: nil, ErrSkipDir or an error of its own
WalkVisitAny ==
    /\ walkFn = "any"
    /\ walkStack # <<>> /\ Top.pc = "range" /\ Top.children # <<>>
    /\ LET child == Head(Top.children) IN
        /\ child \notin faulty.Stat
        /\ \E err \in {"nil", ErrSkipDir, "f failed"} :
            /\ err = ErrSkipDir => Cardinality(FnSkips) < MaxSkips
            /\ err = "f failed" => Cardinality(FnErrors) < MaxFnErrors
            /\ visited' = Append(visited, child)
            /\ fnResult' = MapPut(fnResult, child, err)
            /\ WalkAfterFn(child, err)
    /\ UNCHANGED walkFrame

\* the namespaces Walk is run on, and the single paths on which List or Stat fail
Namespaces ==
    {[dirs |-> t \cap UniverseDirs,
      files |-> [q \in t \cap UniverseFiles |-> "none"]] :
        t \in TreesOf(UniverseDirs \cup UniverseFiles)}

FaultsOf(method, paths) ==
    {NoFaults} \cup {[NoFaults EXCEPT ![method] = {q}] : q \in paths}

\* Walk(ctx, driver, from, f) is called
WalkCalled(from) ==
    /\ walkStack = <<[from |-> from, pc |-> "list", children |-> <<>>]>>
    /\ walkRet = WalkRunning
    /\ visited = <<>>
    /\ fnResult = EmptyMap

InitSpecWalk ==
    /\ NoTransfer /\ InitBase /\ InitFactory /\ InitPurgeIdle /\ InitBlobIdle
    /\ InitManifest
    /\ namespace \in Namespaces
    /\ faulty \in FaultsOf("Stat", {root \o <<"a">>, root \o <<"a", "_uploads">>})
                 \cup FaultsOf("List", {root, root \o <<"a">>})
    /\ \A q \in faulty.Stat \cup (faulty.List \ {root}) : Exists(q)
    /\ walkFn = "any"
    /\ WalkCalled(root)

NextWalk == WalkList \/ WalkStatFails \/ WalkEnds \/ WalkVisitAny

\* Walk is sequential code: it runs until it returns
SpecWalk == InitSpecWalk /\ [][NextWalk]_vars /\ WF_vars(NextWalk)

(* ---------------------------- PurgeUploads ----------------------------- *)
\* Times are whole hours, counted from the time.Now() of the call.
\* time.Duration(10000 * time.Hour)
farFutureHours == 10000

\* newUploadData()
newUploadData == [containingDir |-> <<>>, startedAt |-> farFutureHours]

\* what a startedat file holds: an RFC3339 time, or bytes time.Parse rejects
Timestamp(t) == [valid |-> TRUE, t |-> t]
Garbage == [valid |-> FALSE, t |-> 0]

\* the components uuid.Parse accepts
UUIDs == {"u1", "u2", "u3", "u4", "u5"}

\* a callback to which no name is reserved
ReservedNever(file) == FALSE

\* file[0] == '_'
Reserved(file) == file \in {"_layers", "_uploads"}

Max(S) == CHOOSE x \in S : \A y \in S : x >= y

\* uUIDFromPath(path): the rightmost component that parses as a UUID, and
\* whether it is the last one
uUIDFromPath(path) ==
    LET found == {n \in 1 .. Len(path) : path[n] \in UUIDs}
    IN  IF found = {} THEN [uuid |-> "", isContainingDir |-> FALSE]
        ELSE [uuid |-> path[Max(found)], isContainingDir |-> Max(found) = Len(path)]

\* the error of readStartedAtFile(driver, path), "nil" when it returns the time
readStartedAtErr(path) ==
    IF path \in faulty.GetContent \/ path \notin DOMAIN namespace.files
    THEN "GetContent"
    ELSE IF ~namespace.files[path].valid THEN "time.Parse"
    ELSE "nil"

\* pushError(errors, path, err)
pushError(errs, path, err) == Append(errs, [path |-> path, err |-> err])

\* the uploadData after `if file == "startedat" { ... }` for a file of that name
PurgeFnStartedAt(filePath, ud) ==
    IF readStartedAtErr(filePath) = "nil"
    THEN [ud EXCEPT !.startedAt = namespace.files[filePath].t]
    ELSE ud

\* err = f(fileInfo) with the f of getOutstandingUploads
WalkVisitPurge ==
    /\ walkFn = "purge"
    /\ walkStack # <<>> /\ Top.pc = "range" /\ Top.children # <<>>
    /\ LET filePath == Head(Top.children)
           file == Base_(filePath)
           skips == Reserved(file) /\ IsDir(filePath) /\ file # "_uploads"
           u == uUIDFromPath(filePath)
           ud0 == IF u.uuid \in DOMAIN uploads THEN uploads[u.uuid] ELSE newUploadData
           ud1 == IF u.isContainingDir THEN [ud0 EXCEPT !.containingDir = filePath]
                  ELSE ud0
           ud2 == IF file = "startedat" THEN PurgeFnStartedAt(filePath, ud1) ELSE ud1
           err == IF skips THEN ErrSkipDir ELSE "nil"
       IN  /\ filePath \notin faulty.Stat
           /\ inUploadDir' = IF Reserved(file) THEN file = "_uploads" ELSE inUploadDir
           /\ IF skips \/ u.uuid = "" THEN UNCHANGED <<uploads, errors>>
              ELSE /\ uploads' = MapPut(uploads, u.uuid, ud2)
                   /\ errors' = IF file = "startedat" /\ readStartedAtErr(filePath) # "nil"
                                THEN pushError(errors, filePath,
                                               WalkError(readStartedAtErr(filePath), filePath))
                                ELSE errors
           /\ visited' = Append(visited, filePath)
           /\ fnResult' = MapPut(fnResult, filePath, err)
           /\ WalkAfterFn(filePath, err)
    /\ UNCHANGED <<namespace, faulty, walkFn, exceptPurge, purgePc, olderThan,
                   actuallyDelete, deleted, ranged, deleteCalls>>

\* getOutstandingUploads after Walk: if err != nil { pushError(errors, root, err) }
PurgeAfterWalk ==
    /\ purgePc = "walk" /\ walkRet # WalkRunning
    /\ errors' = IF walkRet # WalkNil THEN pushError(errors, root, walkRet) ELSE errors
    /\ purgePc' = "range"
    /\ UNCHANGED <<wkvars, exceptPurge, olderThan, actuallyDelete, uploads,
                   inUploadDir, deleted, ranged, deleteCalls>>

\* a Delete whose error is lost
DeleteErrLost(path) == "nil"

\* the error of driver.Delete(ctx, path), "nil" when it deletes
DeleteErr(path) ==
    IF path \in faulty.Delete THEN "Delete"
    ELSE IF ~Exists(path) THEN "PathNotFound"
    ELSE "nil"

IsPrefix(p, q) == Len(p) <= Len(q) /\ SubSeq(q, 1, Len(p)) = p

\* the namespace without path and all that is below it
Delete(ns, path) ==
    [dirs |-> {d \in ns.dirs : ~IsPrefix(path, d)},
     files |-> [q \in {r \in DOMAIN ns.files : ~IsPrefix(path, r)} |-> ns.files[q]]]

\* one pass of the loop of PurgeUploads, over any upload not ranged over yet
PurgeRange ==
    /\ purgePc = "range"
    /\ \E uuid \in DOMAIN uploads \ ranged :
        LET uploadData == uploads[uuid]
            dir == uploadData.containingDir
            err == IF actuallyDelete THEN DeleteErr(dir) ELSE "nil"
        IN  /\ ranged' = ranged \cup {uuid}
            /\ IF uploadData.startedAt < olderThan
               THEN /\ deleteCalls' = IF actuallyDelete THEN Append(deleteCalls, dir)
                                      ELSE deleteCalls
                    /\ namespace' = IF actuallyDelete /\ err = "nil"
                                    THEN Delete(namespace, dir) ELSE namespace
                    /\ deleted' = IF err = "nil" THEN Append(deleted, dir) ELSE deleted
                    /\ errors' = IF err = "nil" THEN errors
                                 ELSE Append(errors, [path |-> <<>>,
                                                      err |-> WalkError(err, dir)])
               ELSE UNCHANGED <<deleteCalls, namespace, deleted, errors>>
    /\ UNCHANGED <<faulty, walkFn, walkStack, walkRet, visited, fnResult, exceptPurge,
                   purgePc, olderThan, actuallyDelete, uploads, inUploadDir>>

\* return deleted, errors
PurgeReturns ==
    /\ purgePc = "range" /\ ranged = DOMAIN uploads
    /\ purgePc' = "done"
    /\ UNCHANGED <<wkvars, exceptPurge, olderThan, actuallyDelete, uploads,
                   inUploadDir, errors, deleted, ranged, deleteCalls>>

\* the times startedat files hold: MaxAge hours ago, or now
Old == 0 - MaxAge
New == 0

\* what the startedat file of an upload may hold
StartedAtOf(file) ==
    IF file[Len(file) - 1] = "u1" THEN {Timestamp(Old), Timestamp(New), Garbage}
    ELSE {Timestamp(Old)}

\* the namespaces PurgeUploads is run on
PurgeNamespaces ==
    UNION {{[dirs |-> t \cap UniverseDirs, files |-> fs] :
                fs \in {g \in [t \cap UniverseFiles -> {Timestamp(Old), Timestamp(New),
                                                         Garbage}] :
                            \A q \in DOMAIN g : g[q] \in StartedAtOf(q)}} :
            t \in TreesOf(UniverseDirs \cup UniverseFiles)}

\* the cutoffs: the older time, an hour later, and an hour after the time
\* newUploadData gives
Cutoffs == {Old, Old + 1, farFutureHours + 1}

InitSpecPurge ==
    /\ NoTransfer /\ InitBase /\ InitFactory /\ InitBlobIdle /\ InitManifest
    /\ namespace \in PurgeNamespaces
    /\ faulty \in FaultsOf("Stat", {root \o <<"a">>, root \o <<"a", "_uploads", "u1">>})
                 \cup FaultsOf("GetContent",
                               {root \o <<"a", "_uploads", "u1", "startedat">>})
                 \cup FaultsOf("Delete", {root \o <<"a", "_uploads", "u1">>})
    /\ \A q \in faulty.Stat \cup faulty.GetContent \cup faulty.Delete : Exists(q)
    /\ walkFn = "purge"
    /\ WalkCalled(root)
    /\ purgePc = "walk"
    /\ olderThan \in Cutoffs
    /\ actuallyDelete \in BOOLEAN
    /\ uploads = EmptyMap
    /\ inUploadDir = FALSE
    /\ errors = <<>>
    /\ deleted = <<>>
    /\ ranged = {}
    /\ deleteCalls = <<>>

NextPurge ==
    \/ WalkList \/ WalkStatFails \/ WalkEnds \/ WalkVisitPurge
    \/ PurgeAfterWalk \/ PurgeRange \/ PurgeReturns

SpecPurge == InitSpecPurge /\ [][NextPurge]_vars

(* ------------------------------ blobServer ------------------------------ *)
ErrUnsupportedMethod == "unsupported method"

\* 365 * 24 * time.Hour, in hours
blobCacheControlMaxAge == 365 * 24

SecondsPerHour == 3600

\* http.StatusTemporaryRedirect
StatusTemporaryRedirect == 307

DecimalDigits == <<"0", "1", "2", "3", "4", "5", "6", "7", "8", "9">>

\* fmt.Sprint(n) and the verb %.f, for a whole number n >= 0
RECURSIVE Sprint(_)
Sprint(n) ==
    IF n < Len(DecimalDigits) THEN DecimalDigits[n + 1]
    ELSE Sprint(n \div Len(DecimalDigits)) \o DecimalDigits[(n % Len(DecimalDigits)) + 1]

\* the fields of the response header ServeBlob reads or sets
HeaderKeys ==
    {"ETag", "Cache-Control", "Docker-Content-Digest", "Content-Type", "Content-Length"}

\* a Header.Get that finds no field
HeaderGetNothing(h, key) == ""

\* Header.Get(key): the first value of the field, "" when it has none
HeaderGet(h, key) == IF h[key] = <<>> THEN "" ELSE h[key][1]

\* Header.Set(key, value): value replaces all the values of the field
HeaderSet(h, key, value) == [h EXCEPT ![key] = <<value>>]

\* w.Header().Set(key, value) under `if w.Header().Get(key) == ""`
HeaderSetIfEmpty(h, key, value) ==
    IF HeaderGet(h, key) = "" THEN HeaderSet(h, key, value) ELSE h

\* the header as ServeBlob hands it to http.ServeContent
StreamHeader(h, desc) ==
    LET h1 == HeaderSet(h, "ETag", desc.Digest)
        h2 == HeaderSet(h1, "Cache-Control",
                        "max-age=" \o Sprint(blobCacheControlMaxAge * SecondsPerHour))
        h3 == HeaderSetIfEmpty(h2, "Docker-Content-Digest", desc.Digest)
        h4 == HeaderSetIfEmpty(h3, "Content-Type", desc.MediaType)
    IN  HeaderSetIfEmpty(h4, "Content-Length", Sprint(desc.Length))

\* ServeBlob returns err, after the calls it made
ServeReturns(err, made) ==
    /\ serveRet' = err
    /\ serveCalls' = made

\* (bs *blobServer) ServeBlob(ctx, w, r, dgst)
ServeBlob ==
    /\ serveRet = "none" /\ blobServer # NoBlobServer
    /\ LET stat == blobServer.statter
           desc == stat.desc
           path == blobServer.pathFn
           url == blobServer.URLFor
           br == blobServer.newFileReader
           uptoPath == <<"statter.Stat", "pathFn">>
           uptoURLFor == uptoPath \o <<"driver.URLFor">>
           uptoReader == uptoURLFor \o <<"newFileReader">>
       IN  IF stat.err # "nil"
           THEN ServeReturns(stat.err, <<"statter.Stat">>) /\ UNCHANGED responseWriter
           ELSE IF path.err # "nil"
           THEN ServeReturns(path.err, uptoPath) /\ UNCHANGED responseWriter
           ELSE IF url.err = "nil"
           THEN /\ responseWriter' = [responseWriter EXCEPT
                                          !.wrote = "http.Redirect",
                                          !.status = StatusTemporaryRedirect,
                                          !.location = url.url]
                /\ ServeReturns(url.err, uptoURLFor)
           ELSE IF url.err = ErrUnsupportedMethod
           THEN IF br.err # "nil"
                THEN ServeReturns(br.err, uptoReader) /\ UNCHANGED responseWriter
                ELSE /\ responseWriter' = [responseWriter EXCEPT
                                               !.wrote = "http.ServeContent",
                                               !.Header = StreamHeader(@, desc)]
                     \* `br, err :=` declared another err: this is the err of URLFor
                     /\ ServeReturns(url.err, uptoReader \o <<"http.ServeContent">>)
           ELSE ServeReturns(url.err, uptoURLFor) /\ UNCHANGED responseWriter
    /\ UNCHANGED <<blobServer, blobDgst, exceptBlob>>

\* the digests of blobs
BlobDigests == {"sha256:a", "sha256:b"}

\* desc.Length is 0 or MaxLength
Descriptors ==
    [Digest : BlobDigests, MediaType : {"application/octet-stream"}, Length : {0, MaxLength}]

\* what an earlier handler left in a field: nothing, an empty value, a value,
\* or an empty value and then a value
PriorValues(key) ==
    IF key \in {"ETag", "Cache-Control"} THEN {<<>>, <<"prior">>}
    ELSE {<<>>, <<"">>, <<"prior">>, <<"", "prior">>}

PriorHeaders == {h \in [HeaderKeys -> UNION {PriorValues(k) : k \in HeaderKeys}] :
                    \A k \in HeaderKeys : h[k] \in PriorValues(k)}

\* the answers of the statter, the path function, driver.URLFor and newFileReader
BlobServers ==
    [statter : [err : {"nil"}, desc : Descriptors]
                   \cup {[err |-> "blob unknown", desc |-> NoDescriptor]},
     pathFn : {[err |-> "nil", path |-> "/blobs/data"],
               [err |-> "pathFn failed", path |-> ""]},
     URLFor : {[err |-> "nil", url |-> "https://storage/blobs/data"],
               [err |-> ErrUnsupportedMethod, url |-> ""],
               [err |-> "URLFor failed", url |-> ""]},
     newFileReader : [err : {"nil", "newFileReader failed"}]]

InitSpecBlob ==
    /\ NoTransfer /\ InitBase /\ InitFactory /\ InitWalkIdle /\ InitPurgeIdle
    /\ InitManifest
    /\ blobServer \in BlobServers
    /\ blobDgst \in BlobDigests
    /\ responseWriter \in {[NoResponse EXCEPT !.Header = h] : h \in PriorHeaders}
    /\ serveRet = "none"
    /\ serveCalls = <<>>

NextBlob == ServeBlob

SpecBlob == InitSpecBlob /\ [][NextBlob]_vars

(* ---------------------- claims about one layer ------------------------- *)
\* the writers obtained and not yet closed
OpenWriters == {h \in Handles : ~writers[h].closed}

\* C7: at most one LayerWriter of the layer is open at any time, and a Writer()
\* request made while another writer is open on a layer that is not complete
\* returns ErrLayerLocked
C7_AtMostOneWriter ==
    /\ Cardinality(OpenWriters) <= 1
    /\ (/\ last.call = "Writer"
        /\ OpenWriters \ {Len(writers)} # {}
        /\ CurrentSize(last.before) # Size(last.before))
       => last.err = ErrLayerLocked

C9_ReaderFullyWritten ==
    (last.call = "Reader" /\ last.err = "nil")
    => CurrentSize(last.before) = Size(last.before)

\* C9 (amended): Reader() fails with "not written" exactly when no writer was ever
\* acquired for the layer and with ErrLayerLocked exactly when a writer was and
\* the writing flag is set; otherwise it returns a reader over the bytes written
\* so far, whatever the expected size is
C9_ReaderUnlessLocked ==
    last.call = "Reader"
    => /\ last.err = ErrNotWritten <=> writers = <<>>
       /\ last.err = ErrLayerLocked <=> (writers # <<>> /\ last.before.writing)
       /\ last.err = "nil" <=> (writers # <<>> /\ ~last.before.writing)

\* Reader() returned a reader over a layer that is not fully written
C9_Witness ==
    /\ last.call = "Reader" /\ last.err = "nil"
    /\ CurrentSize(last.before) < Size(last.before)

\* C10: a layer for which Writer() returns ErrLayerAlreadyExists has
\* CurrentSize() == Size() > 0
C10_AlreadyExistsComplete ==
    (last.call = "Writer" /\ last.err = ErrLayerAlreadyExists)
    => /\ CurrentSize(last.before) = Size(last.before)
       /\ Size(last.before) > 0

(* -------------------------- resumed download --------------------------- *)
\* a layer an earlier writer closed before it was whole
PartiallyWritten(ml) ==
    ml.contents # NilBytes /\ ~ml.writing /\ CurrentSize(ml) < Size(ml)

\* C11: when an earlier writer left the layer of a digest closed with k bytes,
\* k < Size(), pullLayer for that digest, unless the store fails to give it a
\* writer, calls GetBlob once, with offset k; once
\* GetBlob has answered, Size is k + the announced length and the k bytes are
\* still the head of the contents; and when pullLayer returns nil,
\* CurrentSize() == Size() and the contents are the whole blob
C11_ResumableLayer ==
    (op = "pull" /\ Distinct /\ nLayers >= 1 /\ PartiallyWritten(preset)) =>
        LET ml == layerStorage[digest(0)]
            k == CurrentSize(preset)
        IN  /\ calls.GetBlob[0] <= 1
            /\ calls.GetBlob[0] = 1 => getBlobOffset[0] = k
            /\ (0 \in Returned /\ werr[0].kind \notin {"ObjectStore.Layer", "Writer"}) =>
                /\ calls.GetBlob[0] = 1
                /\ werr[0].kind # "GetBlob" =>
                    /\ Size(ml) = k + wlen[0]
                    /\ CurrentSize(ml) >= k
                    /\ SubSeq(ml.contents, 1, k) = preset.contents
                /\ werr[0] = NoError =>
                    /\ CurrentSize(ml) = Size(ml)
                    /\ ml.contents = RemoteBlob

\* the download of a layer that held 1 of its bytes was resumed at offset 1 and
\* came to its end
C11_Witness ==
    /\ op = "pull" /\ Distinct /\ nLayers >= 1
    /\ PartiallyWritten(preset) /\ CurrentSize(preset) = 1
    /\ 0 \in Returned /\ werr[0] = NoError
    /\ getBlobOffset[0] = 1 /\ wlen[0] = BlobSize - 1
    /\ layerStorage[digest(0)].contents = RemoteBlob

(* ----------------------- claims about Base ----------------------------- *)
\* an absolute path: one or more components, each led by a slash and made of one
\* or more characters of the class
WellFormedPath(s) ==
    /\ Len(s) >= 2
    /\ s[1] = "/" /\ s[Len(s)] # "/"
    /\ \A p \in 1 .. Len(s) : s[p] \in ComponentChars \cup {"/"}
    /\ \A p \in 1 .. Len(s) - 1 : ~(s[p] = "/" /\ s[p + 1] = "/")

\* the wrapped driver got the call Base was given, and nothing else
Forwarded == Len(driverCalls) = 1 /\ driverCalls[1].call = baseCall

AncestorsBelow(from, path) ==
    {SubSeq(path, 1, n) : n \in Len(from) + 1 .. Len(path) - 1}

\* the proper descendants of root that are in no directory f returned
\* ErrSkipDir for
NotSkipped ==
    {q \in namespace.dirs \cup DOMAIN namespace.files :
        AncestorsBelow(root, q) \cap FnSkips = {}}

\* C14: on a namespace in which List and Stat succeed, with an f that returns
\* nil or ErrSkipDir, Walk invokes f at most once on a path, on a path only after
\* each of the directories above it, and on no path inside a directory f
\* returned ErrSkipDir for; Walk comes to its end, returns nil, and has then
\* invoked f on every proper descendant of `from` that is in no such directory
C14_WalkVisitsOnce ==
    /\ []((faulty = NoFaults /\ FnErrors = {}) =>
            /\ \A m, n \in 1 .. Len(visited) : visited[m] = visited[n] => m = n
            /\ \A n \in 1 .. Len(visited) :
                    \A d \in AncestorsBelow(root, visited[n]) :
                        /\ \E m \in 1 .. n - 1 : visited[m] = d
                        /\ d \notin FnSkips
            /\ walkRet # WalkRunning =>
                    /\ walkRet = WalkNil /\ walkStack = <<>>
                    /\ {visited[n] : n \in 1 .. Len(visited)} = NotSkipped)
    /\ <>(walkRet # WalkRunning)

\* Walk has ended after f returned ErrSkipDir for a/_uploads, which holds u1:
\* the last path f was invoked on is the startedat of b/_uploads/u4
C14_Witness ==
    /\ faulty = NoFaults /\ FnErrors = {}
    /\ walkRet = WalkNil
    /\ FnSkips = {root \o <<"a", "_uploads">>}
    /\ Exists(root \o <<"a", "_uploads", "u1">>)
    /\ Exists(root \o <<"a", "_layers", "u3">>)
    /\ Len(visited) > 0
    /\ visited[Len(visited)] = root \o <<"b", "_uploads", "u4", "startedat">>

\* C15: once f has returned an error other than ErrSkipDir for a path, f is
\* invoked on no further path, and the Walk called on `from` returns that error
C15_FnErrorAborts ==
    \A q \in FnErrors :
        /\ visited[Len(visited)] = q
        /\ walkRet # WalkRunning => walkRet = WalkError(fnResult[q], q)

(* ------------------------ claims about PurgeUploads --------------------- *)
\* the upload containing directories: a UUID directly under _uploads
UploadDirs ==
    {d \in UniverseDirs : Base_(d) \in UUIDs /\ Base_(Parent(d)) = "_uploads"}

StartedAtFile(d) == d \o <<"startedat">>

\* the startedat file of d holds a timestamp strictly before the cutoff
StartedBefore(d) ==
    /\ StartedAtFile(d) \in DOMAIN namespace.files
    /\ namespace.files[StartedAtFile(d)].valid
    /\ namespace.files[StartedAtFile(d)].t < olderThan

Range(seq) == {seq[n] : n \in 1 .. Len(seq)}

\* C16: with actuallyDelete and a driver whose operations succeed, each Delete
\* that PurgeUploads calls is on an upload containing directory whose own
\* startedat holds a time strictly before the cutoff, each such directory is
\* deleted by the time PurgeUploads returns, and `deleted` lists the same paths
C16_PurgesExactlyOlder ==
    /\ []((actuallyDelete /\ faulty = NoFaults) =>
            /\ Range(deleted) = Range(deleteCalls)
            /\ purgePc = "done" =>
                    \A d \in UploadDirs : Exists(d) => ~StartedBefore(d))
    /\ [][(actuallyDelete /\ faulty = NoFaults) =>
            \A d \in Range(deleteCalls') \ Range(deleteCalls) :
                d \in UploadDirs /\ Exists(d) /\ StartedBefore(d)]_vars

\* C17: whatever the cutoff, PurgeUploads neither calls Delete on nor reports
\* as deleted a directory whose startedat is missing, unreadable or not a
\* valid timestamp
C17_NoStartedAtNeverDeleted ==
    [][\A d \in (Range(deleteCalls') \ Range(deleteCalls))
                 \cup (Range(deleted') \ Range(deleted)) :
            readStartedAtErr(StartedAtFile(d)) = "nil"]_vars

\* some path at or above d, below the root, has a failing Stat
UnderStatFault(d) ==
    \E n \in Len(root) + 1 .. Len(d) : SubSeq(d, 1, n) \in faulty.Stat

\* C18: when PurgeUploads returns, every failing Stat and every failing read
\* of a startedat is in the error list with its path, and every upload
\* directory not itself below a failing Stat was visited and, if its startedat
\* is older than the cutoff and its Delete works, purged
C18_ErrorsRecordedSweepGoesOn ==
    purgePc = "done" =>
        /\ \A q \in faulty.Stat \cup faulty.GetContent :
                \E n \in 1 .. Len(errors) : errors[n].path = q
        /\ \A d \in UploadDirs :
                (Exists(d) /\ ~UnderStatFault(d)) =>
                    /\ d \in Range(visited)
                    /\ ~(/\ actuallyDelete
                         /\ StartedBefore(d)
                         /\ StartedAtFile(d) \notin faulty.GetContent
                         /\ d \notin faulty.Delete)

(* ------------------------- claims about ServeBlob ----------------------- *)
\* the statter and the path function both answered without an error
Resolved == blobServer.statter.err = "nil" /\ blobServer.pathFn.err = "nil"

DriverCalled == \E n \in 1 .. Len(serveCalls) :
                    serveCalls[n] \in {"driver.URLFor", "newFileReader"}

\* C19: once ServeBlob has returned: an error of the statter or of the path
\* function is what it returned and the driver was not called; a URL from URLFor
\* was answered by a 307 redirect to it and nil was returned; after
\* ErrUnsupportedMethod with a reader that opened, the content was handed to
\* http.ServeContent and nil was returned; any other error of URLFor was
\* returned and nothing was written
C19_ServeBlobOutcome ==
    serveRet # "none" =>
        /\ blobServer.statter.err # "nil" =>
                serveRet = blobServer.statter.err /\ ~DriverCalled
        /\ (blobServer.statter.err = "nil" /\ blobServer.pathFn.err # "nil") =>
                serveRet = blobServer.pathFn.err /\ ~DriverCalled
        /\ (Resolved /\ blobServer.URLFor.err = "nil") =>
                /\ responseWriter.wrote = "http.Redirect"
                /\ responseWriter.status = StatusTemporaryRedirect
                /\ responseWriter.location = blobServer.URLFor.url
                /\ serveRet = "nil"
        /\ (/\ Resolved /\ blobServer.URLFor.err = ErrUnsupportedMethod
            /\ blobServer.newFileReader.err = "nil") =>
                responseWriter.wrote = "http.ServeContent" /\ serveRet = "nil"
        /\ (Resolved /\ blobServer.URLFor.err \notin {"nil", ErrUnsupportedMethod}) =>
                serveRet = blobServer.URLFor.err /\ responseWriter.wrote = "none"

\* the decimal numerals of the lengths from 1 on, written out
Numerals ==
    <<"1", "2", "3", "4", "5", "6", "7", "8", "9", "10", "11", "12", "13", "14", "15",
      "16">>

Numeral(n) == IF n = 0 THEN "0" ELSE Numerals[n]

\* C20: the step of ServeBlob that streams leaves in the header ETag = the
\* digest of the descriptor and Cache-Control = max-age=31536000, and leaves
\* each of Docker-Content-Digest, Content-Type and Content-Length as it was when
\* its first value was not empty, and else holding the descriptor's value alone
C20_StreamingHeaders ==
    [][responseWriter'.wrote = "http.ServeContent" =>
        LET desc == blobServer.statter.desc
            before == responseWriter.Header
            after == responseWriter'.Header
            fromDesc == [k \in {"Docker-Content-Digest", "Content-Type", "Content-Length"} |->
                            IF k = "Docker-Content-Digest" THEN desc.Digest
                            ELSE IF k = "Content-Type" THEN desc.MediaType
                            ELSE Numeral(desc.Length)]
        IN  /\ after["ETag"] = <<desc.Digest>>
            /\ after["Cache-Control"] = <<"max-age=31536000">>
            /\ \A k \in DOMAIN fromDesc :
                    after[k] = IF before[k] # <<>> /\ before[k][1] # ""
                               THEN before[k] ELSE <<fromDesc[k]>>]_vars

\* a blob of MaxLength bytes was streamed: the Content-Type an earlier handler set is
\* still there, and the digest and the length were filled in from the descriptor
C20_Witness ==
    /\ responseWriter.wrote = "http.ServeContent"
    /\ blobServer.statter.desc.Length = MaxLength
    /\ responseWriter.Header["Content-Type"] = <<"prior">>
    /\ responseWriter.Header["Docker-Content-Digest"] = <<blobServer.statter.desc.Digest>>
    /\ responseWriter.Header["Content-Length"] = <<Numeral(MaxLength)>>
    /\ responseWriter.Header["ETag"] = <<blobServer.statter.desc.Digest>>

(* ---------------------- more claims about the engine -------------------- *)
\* Pull or Push has closed cancelCh and returned the error of a layer
Aborted == spc = "done" /\ cancelCh = "closed" /\ ret # NoError

\* C21: after Pull or Push has closed cancelCh and returned a layer error, no
\* goroutine of the invocation makes another GetBlob, BlobLength,
\* InitiateBlobUpload or UploadBlob call, and no layer of the store is written
C21_FailureCancelsInFlight ==
    [][Aborted =>
        /\ calls'.GetBlob = calls.GetBlob
        /\ calls'.BlobLength = calls.BlobLength
        /\ calls'.InitiateBlobUpload = calls.InitiateBlobUpload
        /\ calls'.UploadBlob = calls.UploadBlob
        /\ \A d \in Digests : layerStorage'[d].contents = layerStorage[d].contents]_vars

\* the manifest Pull gets has no layers, or not one history entry per layer
Malformed == Len(manifest.FSLayers) # manifest.History \/ Len(manifest.FSLayers) = 0

\* no goroutine was spawned, no layer was asked of the store or written, and
\* neither GetBlob nor WriteManifest was called
NoLayerWork ==
    /\ \A k \in Layers : wpc[k] = "idle" /\ calls.GetBlob[k] = 0
    /\ calls.WriteManifest = 0
    /\ layerStorage = [d \in Digests |-> IF d = 0 THEN preset ELSE newMemoryLayer]
    /\ cancelCh = "open"

\* C22: a Pull whose GetImageManifest fails, or whose manifest is malformed,
\* does no layer work at any time, and what it returns is an error: that of
\* GetImageManifest, else the one of the check that fails first
C22_MalformedManifestRejected ==
    (op = "pull" /\ (Malformed \/ ret.kind = "GetImageManifest")) =>
        /\ NoLayerWork
        /\ spc \in {"start", "done"}
        /\ spc = "done" =>
                ret = IF calls.GetImageManifest = 1 /\ faults = 1
                      THEN LayerError("GetImageManifest", -1)
                      ELSE IF Len(manifest.FSLayers) # manifest.History
                      THEN LayerError("Length of history not equal to number of layers", -1)
                      ELSE LayerError("Image has no layers", -1)

\* Pull has returned "Image has no layers" for a manifest of no layer and no
\* history entry
C22_Witness ==
    /\ op = "pull" /\ spc = "done"
    /\ Len(manifest.FSLayers) = 0 /\ manifest.History = 0
    /\ ret = LayerError("Image has no layers", -1)
    /\ calls.GetImageManifest = 1

\* the error pushLayer gives for a local layer it cannot push, "nil" if it can:
\* never written, locked by a writer, or not of its expected size
LocalLayerErr(ml) ==
    IF ml.contents = NilBytes THEN "Layer has not been written to yet"
    ELSE IF ml.writing THEN "Layer locked"
    ELSE IF len(ml.contents) # ml.expectedSize THEN "Local layer incomplete"
    ELSE "nil"

NoRemoteCall(k) ==
    calls.BlobLength[k] = 0 /\ calls.InitiateBlobUpload[k] = 0 /\ calls.UploadBlob[k] = 0

\* the layers of the manifest whose local layer cannot be pushed
Unpushable == {k \in 0 .. nLayers - 1 : LocalLayerErr(layerStorage[digest(k)]) # "nil"}

StoreFailed(k) == werr[k].kind \in {"ObjectStore.Layer", "Writer"}

\* C24: the step of pullLayer for layer k that asks for the writer, when the
\* store gives no other error: on a layer that is whole and not being written
\* it ends pullLayer with nil, on a layer being written it goes to Wait(), and
\* either way it calls nothing and writes nothing; another error of the store
\* ends pullLayer with that error. While in Wait() and when Wait() returns,
\* layer k calls no GetBlob and writes nothing, and pullLayer ends with nil,
\* which it does only when the layer is no longer being written
C24_PullLayerSignals ==
    [][op = "pull" =>
        \A k \in 0 .. nLayers - 1 :
            LET ml == layerStorage[digest(k)]
                quiet == /\ calls' = calls
                         /\ layerStorage' = layerStorage \/ wpc'[k] = "waiting"
                         /\ \A d \in Digests :
                                layerStorage'[d].contents = layerStorage[d].contents
                         /\ calls.GetBlob[k] = 0
            IN  /\ (wpc[k] = "run" /\ wpc'[k] # "run") =>
                    IF faults' # faults
                    THEN wpc'[k] = "send" /\ StoreFailed(k)' /\ werr'[k].layer = k /\ quiet
                    ELSE IF ml.contents # NilBytes /\ ml.writing
                    THEN wpc'[k] = "wait" /\ quiet
                    ELSE IF ml.contents # NilBytes /\ len(ml.contents) = ml.expectedSize
                    THEN wpc'[k] = "send" /\ werr'[k] = NoError /\ quiet
                    ELSE wpc'[k] = "getblob"
                /\ (wpc[k] \in {"wait", "waiting"} /\ wpc'[k] # wpc[k]) =>
                    /\ quiet
                    /\ wpc'[k] \in {"waiting", "send"}
                    /\ wpc'[k] = "send" => werr'[k] = NoError /\ ~ml.writing]_vars

\* pullLayer of layer 1, whose digest is that of layer 0, found the layer locked
\* by the writer of layer 0 and is blocked in Wait(), without a GetBlob
C24_Witness ==
    /\ op = "pull" /\ ~Distinct
    /\ wpc[1] = "waiting" /\ 1 \in layerStorage[digest(1)].cond
    /\ wpc[0] = "getblob" /\ layerStorage[digest(0)].writing
    /\ calls.GetBlob[1] = 0

(* ---------------------- more claims about one layer --------------------- *)
\* C25: a Write on a layer whose expected size no SetSize has made positive
\* returns an error and leaves the contents as they were; a SetSize on a writer
\* that was closed returns an error and leaves the expected size as it was
C25_WriteAfterSetSizeOnly ==
    /\ (last.call = "Write" /\ last.before.expectedSize = 0) =>
            last.err # "nil" /\ layer.contents = last.before.contents
    /\ (last.call = "SetSize" /\ last.closed) =>
            last.err # "nil" /\ layer.expectedSize = last.before.expectedSize

\* C26: a Close on a writer that was closed before leaves the contents, the
\* expected size and the writing flag of the layer as they were
C26_CloseIdempotent ==
    (last.call = "Close" /\ last.closed) =>
        /\ layer.contents = last.before.contents
        /\ layer.expectedSize = last.before.expectedSize
        /\ layer.writing = last.before.writing

(* ------------------------ more claims about Base ------------------------ *)
\* C27: every call the wrapped driver receives from Base carries a context
\* derived from the context of the caller
C27_CallerContextForwarded ==
    \A n \in 1 .. Len(driverCalls) : driverCalls[n].ctx.parent = "caller"

\* C28: ReadStream and WriteStream answer a negative offset with
\* InvalidOffsetError, whatever the path, and do not call the driver; List
\* forwards the path "/"; no other method forwards a call with the path "/";
\* Move with two invalid paths returns InvalidPathError for the source path
C28_OffsetFirstRootForList ==
    baseCall # NoBaseCall =>
        /\ (baseCall.method \in {"ReadStream", "WriteStream"} /\ baseCall.offset < 0) =>
                baseRet = InvalidOffsetError(baseCall.path) /\ driverCalls = <<>>
        /\ (baseCall.method = "List" /\ baseCall.path = <<"/">>) => Forwarded
        /\ (baseCall.method # "List"
                /\ <<"/">> \in {baseCall.path, baseCall.destPath}) =>
                /\ driverCalls = <<>>
                /\ baseRet.err \in {"InvalidPathError", "InvalidOffsetError"}
        /\ (/\ baseCall.method = "Move"
            /\ ~WellFormedPath(baseCall.path) /\ ~WellFormedPath(baseCall.destPath)) =>
                baseRet = InvalidPathError(baseCall.path) /\ driverCalls = <<>>

\* ReadStream was called with the offset -1 and a path that is not valid, and
\* returned InvalidOffsetError
C28_Witness ==
    /\ baseCall.method = "ReadStream" /\ baseCall.offset = -1
    /\ baseCall.path = <<"*">>
    /\ baseRet = InvalidOffsetError(<<"*">>)
    /\ driverCalls = <<>>

(* --------------------- more claims about PurgeUploads ------------------- *)
\* the containing directories of the records whose startedAt is before the cutoff
Expired ==
    {uploads[u].containingDir : u \in {v \in DOMAIN uploads :
                                          uploads[v].startedAt < olderThan}}

\* C29: a dry run never calls Delete and never changes the namespace, and
\* returns as deleted the directories of all records older than the cutoff; a
\* run that deletes lists a directory as deleted if and only if its Delete
\* worked, records the error of a Delete that failed, and goes through all the
\* records; no Delete is called while Walk runs
C29_DryRunAndDeleteErrors ==
    /\ [](~actuallyDelete => deleteCalls = <<>>)
    /\ [][~actuallyDelete => namespace' = namespace]_vars
    /\ [](deleteCalls # <<>> => walkRet # WalkRunning /\ walkStack = <<>>)
    /\ [](purgePc = "done" =>
            /\ ranged = DOMAIN uploads
            /\ ~actuallyDelete => Range(deleted) = Expired
            /\ actuallyDelete =>
                /\ Range(deleteCalls) = Expired
                /\ Range(deleted) = Expired \ faulty.Delete
                /\ \A d \in Expired :
                        IF d \in faulty.Delete
                        THEN Exists(d) /\ \E n \in 1 .. Len(errors) :
                                            errors[n].err = WalkError("Delete", d)
                        ELSE ~Exists(d))

\* a dry run has returned two directories as deleted, and both still exist
C29_Witness ==
    /\ purgePc = "done" /\ ~actuallyDelete
    /\ Len(deleted) = 2 /\ deleted[1] # deleted[2]
    /\ \A n \in 1 .. 2 : Exists(deleted[n]) /\ deleted[n] \in UploadDirs
    /\ deleteCalls = <<>>

\* the directories of the universe whose name begins with `_` and is not _uploads
OtherReserved == {d \in UniverseDirs : Base_(d) = "_layers"}

\* C30: the callback of the purger returns ErrSkipDir for a directory whose
\* name begins with `_` and is not _uploads, and nil for _uploads; no path below
\* such a directory is visited and no record is made for a UUID that only
\* occurs below one; with a driver that works, all that is directly in a
\* visited _uploads has been visited when the walk is over
C30_OnlyUploadsDescended ==
    /\ \A q \in DOMAIN fnResult :
            /\ q \in OtherReserved => fnResult[q] = ErrSkipDir
            /\ Base_(q) = "_uploads" => fnResult[q] = "nil"
    /\ \A n \in 1 .. Len(visited) :
            AncestorsBelow(root, visited[n]) \cap OtherReserved = {}
    /\ "u3" \notin DOMAIN uploads
    /\ (purgePc # "walk" /\ faulty = NoFaults /\ deleteCalls = <<>>) =>
            \A q \in Range(visited) :
                Base_(q) = "_uploads" =>
                    \A c \in namespace.dirs : Parent(c) = q => c \in Range(visited)

\* the walk is over: a/_layers, which holds u3, was skipped, and u1 under
\* a/_uploads was visited
C30_Witness ==
    /\ purgePc = "done"
    /\ root \o <<"a", "_layers">> \in DOMAIN fnResult
    /\ fnResult[root \o <<"a", "_layers">>] = ErrSkipDir
    /\ Exists(root \o <<"a", "_layers", "u3", "startedat">>)
    /\ root \o <<"a", "_uploads", "u1">> \in Range(visited)

(* ----------------------- the store after a Pull ------------------------ *)
\* a layer that is complete in the store
Complete(ml) == CurrentSize(ml) = Size(ml) /\ Size(ml) > 0

\* C31: when Pull has returned nil and has written the manifest, every layer
\* the manifest refers to is complete in the ObjectStore, CurrentSize() ==
\* Size() > 0, whatever an earlier pull left in the store
C31_PulledLayersComplete ==
    (op = "pull" /\ spc = "done" /\ ret = NoError /\ calls.WriteManifest = 1) =>
        \A k \in 0 .. nLayers - 1 : Complete(layerStorage[digest(k)])

(* ------------------ termination of Pull and of Push -------------------- *)
\* the goroutine of this invocation that holds the writer of the layer of d
Holder(d) == {k \in Layers : wpc[k] = "getblob" /\ digest(k) = d}

\* the pullLayer of another invocation, which shares the ObjectStore and holds
\* the writer of the layer of d, returns: its deferred layerWriter.Close()
OtherPullLayerClose(d) ==
    /\ op \in {"pull", "push"}
    /\ layerStorage[d].writing /\ Holder(d) = {}
    /\ layerStorage' = [layerStorage EXCEPT ![d] = Close(@)]
    /\ UNCHANGED <<faults, wvars, wpc, werr, wbuf, wlen, calls, getBlobOffset,
                   firstFail>>

\* the layer of digest 0 when the invocation begins: never touched, complete,
\* or held by the writer of another invocation, which has written nothing yet
\* or all of it
SharedLayers ==
    {newMemoryLayer, CompleteLayer,
     [newMemoryLayer EXCEPT !.contents = <<>>, !.writing = TRUE],
     [CompleteLayer EXCEPT !.writing = TRUE]}

\* the store both invocations share: for a Push the other layers of the image
\* are complete
SharedStores(n) ==
    {[d \in Digests |-> IF d = 0 THEN ml
                        ELSE IF op = "push" /\ d < n THEN CompleteLayer
                        ELSE newMemoryLayer] : ml \in SharedLayers}

\* a Pull or a Push of a manifest of 0, 2 or MaxLayers layers, the second of
\* which may repeat the digest of the first
InitShared ==
    /\ InitLayer
    /\ InitIdle
    /\ InitStorage
    /\ op \in {"pull", "push"}
    /\ remoteBlobs = IF op = "pull" THEN Digests ELSE {d \in Digests : d % 2 = 0}
    /\ \E n \in {0, 2, MaxLayers} :
        /\ \E fs \in Manifests(n), f \in BOOLEAN :
              /\ op = "pull" => f
              /\ manifest = [found |-> f, FSLayers |-> fs, History |-> n]
        /\ layerStorage \in SharedStores(n)
    /\ preset = layerStorage[0]

NextShared == Next \/ \E d \in Digests : OtherPullLayerClose(d)

\* every goroutine that can run is run in the end, every call of the client
\* and of the layer returns
SpecTermination == InitShared /\ [][NextShared]_vars /\ WF_vars(NextShared)

\* Pull/Push has returned and no goroutine it spawned is left
Terminated ==
    /\ spc = "done"
    /\ \A k \in Layers : wpc[k] \in {"idle", "done", "exit"}

\* C32: if every call of the client and of the layers returns, every Pull and
\* every Push returns and every goroutine it spawned ends, having delivered its
\* result (done) or having seen the cancel channel closed (exit), also when
\* the manifest repeats a digest and when another invocation holds a layer
C32_NoDeadlockNoLeak ==
    /\ <>[]Terminated
    /\ [](\A k \in Layers :
            /\ wpc[k] = "exit" => cancelCh = "closed" /\ ret # NoError
            /\ wpc[k] = "done" => \E m \in 1 .. Len(received) : received[m].layer = k)

\* a Pull whose layers 0 and 1 share a digest that another invocation was
\* writing when it began: it returned the error of layer 0, the goroutines of
\* layers 1 and 2 saw the cancel channel closed, and nothing is left running
C32_Witness ==
    /\ Terminated /\ op = "pull" /\ ~Distinct
    /\ preset.writing /\ ~layerStorage[0].writing
    /\ wpc[0] = "done" /\ wpc[1] = "exit" /\ wpc[2] = "exit"
    /\ ret.layer = 0

(* ------------------------ pullLayer and the lock ----------------------- *)
\* the goroutines blocked in cond.Wait() on the layer of d
Blocked(d) == {k \in Layers : wpc[k] = "waiting" /\ digest(k) = d /\ k \in layerStorage[d].cond}

\* C33: in a Pull the writing flag of a layer is TRUE exactly while one
\* pullLayer holds its writer; a goroutine is blocked in Wait() on a layer only
\* while that flag is TRUE; and on whichever way pullLayer returns after it
\* got a writer (GetBlob error, copy error, wrong size, success), the flag is
\* FALSE and no goroutine is left blocked on the layer
C33_NeverLeftLocked ==
    /\ [](op = "pull" =>
            \A d \in Digests :
                /\ layerStorage[d].writing <=> Holder(d) # {}
                /\ Cardinality(Holder(d)) <= 1
                /\ Blocked(d) # {} => layerStorage[d].writing
                /\ layerStorage[d].cond \subseteq Blocked(d))
    /\ [][\A k \in Layers :
            (wpc[k] = "getblob" /\ wpc'[k] # "getblob") =>
                /\ k \in Returned'
                /\ ~layerStorage'[digest(k)].writing
                /\ Blocked(digest(k))' = {}]_vars

\* layers 0 and 1 share a digest: pullLayer of layer 0 came back with the
\* error of a copy that ended early, the layer is unlocked, and the goroutine
\* of layer 1, which was blocked in Wait(), is no longer
C33_Witness ==
    /\ op = "pull" /\ ~Distinct
    /\ wpc[0] = "send" /\ werr[0].kind \in {"Copy", "Wrote incorrect number of bytes"}
    /\ wpc[1] = "waiting" /\ Blocked(0) = {}
    /\ ~layerStorage[0].writing

(* ------------------ memoryObjectStore: the manifests ------------------- *)
\* Names and tags are sequences of characters; a manifest is 1 .. MaxManifests,
\* 0 being the nil pointer.
\* the characters of the names and tags: a letter and the colon
NameAlphabet == {"a", ":"}

RECURSIVE NamesOfLen(_)
NamesOfLen(n) ==
    IF n = 0 THEN {<<>>}
    ELSE {Append(x, c) : x \in NamesOfLen(n - 1), c \in NameAlphabet}

Names == UNION {NamesOfLen(n) : n \in 0 .. MaxNameLen}

\* name+":"+tag
manifestKey(name, tag) == name \o <<":">> \o tag

\* objStore.manifestStorage[name+":"+tag] = manifest; return nil
WriteManifest ==
    /\ Len(manifestWrites) < MaxWrites
    /\ \E name \in Names, tag \in Names, m \in 1 .. MaxManifests :
        /\ manifestStorage' =
                [k \in DOMAIN manifestStorage \cup {manifestKey(name, tag)} |->
                    IF k = manifestKey(name, tag) THEN m ELSE manifestStorage[k]]
        /\ manifestWrites' = Append(manifestWrites, [name |-> name, tag |-> tag, manifest |-> m])
        /\ manifestLast' = [call |-> "WriteManifest", name |-> name, tag |-> tag,
                            manifest |-> m, err |-> "nil"]
    /\ UNCHANGED exceptManifest

\* manifest, ok := objStore.manifestStorage[name+":"+tag]; if !ok { return nil,
\* fmt.Errorf("No manifest found ...") }; return manifest, nil
Manifest ==
    /\ \E name \in Names, tag \in Names :
        LET key == manifestKey(name, tag)
            ok == key \in DOMAIN manifestStorage
        IN  manifestLast' = [call |-> "Manifest", name |-> name, tag |-> tag,
                             manifest |-> IF ok THEN manifestStorage[key] ELSE 0,
                             err |-> IF ok THEN "nil" ELSE "No manifest found"]
    /\ UNCHANGED <<manifestStorage, manifestWrites, exceptManifest>>

InitSpecManifest == NoTransfer /\ InitStorage

NextManifest == WriteManifest \/ Manifest

SpecManifest == InitSpecManifest /\ [][NextManifest]_vars

\* the calls of WriteManifest made with exactly this name and this tag
WrittenWith(name, tag) ==
    {n \in 1 .. Len(manifestWrites) :
        manifestWrites[n].name = name /\ manifestWrites[n].tag = tag}

\* C34: Manifest(n, t) returns the manifest of the last WriteManifest made with
\* exactly the name n and the tag t, and a not-found error if there was none;
\* a write under another pair (name, tag) does not change what it returns
C34_KeyedByNameAndTag ==
    manifestLast.call = "Manifest" =>
        LET W == WrittenWith(manifestLast.name, manifestLast.tag)
        IN  IF W = {} THEN manifestLast.err # "nil" /\ manifestLast.manifest = 0
            ELSE /\ manifestLast.err = "nil"
                 /\ manifestLast.manifest = manifestWrites[Max(W)].manifest

(* --------------------- what PurgeUploads deletes ----------------------- *)
\* path is not empty, its last component is a UUID and a component before it
\* is _uploads
BelowUploads(path) ==
    /\ path # <<>>
    /\ Base_(path) \in UUIDs
    /\ \E n \in 1 .. Len(path) - 1 : path[n] = "_uploads"

\* C35: whatever the namespace holds and whatever the cutoff, every path
\* PurgeUploads calls driver.Delete on is not empty, lies below an _uploads
\* directory and ends with a UUID
C35_DeleteOnlyBelowUploads ==
    \A n \in 1 .. Len(deleteCalls) : BelowUploads(deleteCalls[n])
====
